---- MODULE Spec2Model ----
(***************************************************************************)
(* A model of the evidence-navigator worker (src/worker/index.js): the     *)
(* record reconciler (dedupKey, mergeInto, deduplicateAndMerge) and the    *)
(* /api/search orchestrator (handleSearch).                                *)
(*                                                                         *)
(* Strings are sequences of one-character strings where the code looks at  *)
(* characters (titles), and sequences of tokens where it only compares or  *)
(* strips whole pieces (DOIs, URLs, ids).  A falsy year (null or 0) is 0,  *)
(* an undefined citation count is -1, an absent string is "" or << >>.     *)
(***************************************************************************)
EXTENDS Integers, Sequences, FiniteSets, TLC

VARIABLES
    allResults,   \* deduplicateAndMerge: the input list of records
    merged,       \* deduplicateAndMerge: its return value {results, sourceCounts}
    mpc,          \* "input" before the call, "done" after it
    pc,           \* handleSearch: "idle", "translating", "searching", "done"
    req,          \* the search parameters of the request URL
    queryParts,   \* handleSearch: queryParts
    expandedParts,  \* handleSearch: expandedParts
    translatedFields,  \* handleSearch: translatedDisease, translatedTreatment, translatedTopic
    translations, \* the promises of translate(), one per query part
    translatedParts,  \* handleSearch: translatedParts after filter(Boolean)
    searches,     \* the promises pushed to searches, with searchLabels
    response,     \* the Response handleSearch returns
    rateLimitMap, \* rateLimitMap: client IP -> {start, count}
    lastCleanup,  \* lastCleanup
    now,          \* Date.now()
    inflight,     \* admitted requests whose handler has not returned yet
    opened,       \* history: per IP, the timestamp of the request that opened
                  \* its current window (NoWindow before its first request)
    seen,         \* history: per IP, its requests since that timestamp
    lastFetch,    \* history: the last request fetch answered or routed
    grouped,      \* groupByEvidence: its return value
    clsTitle,     \* classifyByTitle: its argument title
    clsLevel,     \* classifyByTitle: its return value ("none" before the call)
    added,        \* history: the title and level before a piece was added to the title
    origin,       \* the Origin header of the request ('' without one)
    allowOrigin,  \* corsHeaders: Access-Control-Allow-Origin (<< >> before the call)
    settledOrder, \* history: the indexes of searches in the order they settled
    alone         \* per IP, the rateLimitMap and lastCleanup of a worker that
                  \* received the requests of this IP and no others

mergeVars == <<allResults, merged, mpc>>

searchVars == <<pc, req, queryParts, expandedParts, translatedFields, translations,
                translatedParts, searches, response>>

limitVars == <<rateLimitMap, lastCleanup, now, inflight, opened, seen, lastFetch>>

vars == <<allResults, merged, mpc, pc, req, queryParts, expandedParts, translatedFields,
         translations,
          translatedParts, searches, response, rateLimitMap, lastCleanup, now,
          inflight, opened, seen, lastFetch, grouped, clsTitle, clsLevel, added,
          origin, allowOrigin, settledOrder, alone>>

groupVars == <<grouped>>

classVars == <<clsTitle, clsLevel, added>>

corsVars == <<origin, allowOrigin>>

\* the variables of the functions modelled on their own
pureVars == <<classVars, corsVars, settledOrder, alone>>

OrderIdle == settledOrder = <<>> /\ alone = <<>>

\* what a step of handleSearch leaves alone, and a step of the reconciler
outsideSearch == <<mergeVars, limitVars, groupVars, pureVars>>
outsideMerge  == <<searchVars, limitVars, groupVars, pureVars>>
outsideLimit  == <<searchVars, mergeVars, groupVars, pureVars>>
outsideClass  == <<searchVars, mergeVars, limitVars, groupVars, corsVars, settledOrder, alone>>
outsideCors   == <<searchVars, mergeVars, limitVars, groupVars, classVars, settledOrder, alone>>

----------------------------------------------------------------------------
(* Generic helpers on sequences.                                           *)

Range(s) == {s[i] : i \in 1..Len(s)}

Includes(s, x) == \E i \in 1..Len(s) : s[i] = x

RECURSIVE Flatten(_)
Flatten(ss) == IF ss = <<>> THEN <<>> ELSE Head(ss) \o Flatten(Tail(ss))

RECURSIVE SeqFilter(_, _)
SeqFilter(s, keep) ==
    IF s = <<>> THEN <<>>
    ELSE IF Head(s) \in keep THEN <<Head(s)>> \o SeqFilter(Tail(s), keep)
    ELSE SeqFilter(Tail(s), keep)

\* [...new Set(s)]: first occurrences, in order
RECURSIVE Unique(_)
Unique(s) ==
    IF s = <<>> THEN <<>>
    ELSE LET front == Unique(SubSeq(s, 1, Len(s) - 1))
             last  == s[Len(s)]
         IN IF Includes(front, last) THEN front ELSE Append(front, last)

Max(a, b) == IF a >= b THEN a ELSE b

\* the sequences over S of length at most n
RECURSIVE SeqsUpTo(_, _)
SeqsUpTo(S, n) ==
    IF n = 0 THEN {<<>>}
    ELSE LET shorter == SeqsUpTo(S, n - 1)
         IN shorter \cup {Append(s, x) : s \in {t \in shorter : Len(t) = n - 1}, x \in S}

----------------------------------------------------------------------------
(* Characters.                                                             *)

LowerLetters == {"a","b","c","d","e","f","g","h","i","j","k","l","m",
                 "n","o","p","q","r","s","t","u","v","w","x","y","z"}
UpperLetters == {"A","B","C","D","E","F","G","H","I","J","K","L","M",
                 "N","O","P","Q","R","S","T","U","V","W","X","Y","Z"}
Digits       == {"0","1","2","3","4","5","6","7","8","9"}
\* \w of a JavaScript regular expression
WordChars    == LowerLetters \cup UpperLetters \cup Digits \cup {"_"}
\* \s
SpaceChars   == {" ", "\t"}
\* stand-ins for code points in 　-鿿 and ＀-￯
CJKChars     == {"U+8133", "U+5352", "U+FF1A"}

toLowerCaseChar(c) ==
    CASE c = "A" -> "a" [] c = "B" -> "b" [] c = "C" -> "c" [] c = "D" -> "d"
      [] c = "E" -> "e" [] c = "F" -> "f" [] c = "G" -> "g" [] c = "H" -> "h"
      [] c = "I" -> "i" [] c = "J" -> "j" [] c = "K" -> "k" [] c = "L" -> "l"
      [] c = "M" -> "m" [] c = "N" -> "n" [] c = "O" -> "o" [] c = "P" -> "p"
      [] c = "Q" -> "q" [] c = "R" -> "r" [] c = "S" -> "s" [] c = "T" -> "t"
      [] c = "U" -> "u" [] c = "V" -> "v" [] c = "W" -> "w" [] c = "X" -> "x"
      [] c = "Y" -> "y" [] c = "Z" -> "z" [] OTHER -> c

toLowerCase(s) == [i \in 1..Len(s) |-> toLowerCaseChar(s[i])]

\* .replace(/\s+/g, ' '): every run of white space becomes one space
RECURSIVE CollapseSpaces(_)
CollapseSpaces(s) ==
    IF s = <<>> THEN <<>>
    ELSE IF Head(s) \in SpaceChars
         THEN IF Len(s) > 1 /\ s[2] \in SpaceChars
              THEN CollapseSpaces(Tail(s))
              ELSE <<" ">> \o CollapseSpaces(Tail(s))
         ELSE <<Head(s)>> \o CollapseSpaces(Tail(s))

RECURSIVE TrimStart(_)
TrimStart(s) ==
    IF s # <<>> /\ Head(s) \in SpaceChars THEN TrimStart(Tail(s)) ELSE s

RECURSIVE TrimEnd(_)
TrimEnd(s) ==
    IF s # <<>> /\ s[Len(s)] \in SpaceChars
    THEN TrimEnd(SubSeq(s, 1, Len(s) - 1)) ELSE s

Trim(s) == TrimEnd(TrimStart(s))

DigitChar(d) ==
    CASE d = 0 -> "0" [] d = 1 -> "1" [] d = 2 -> "2" [] d = 3 -> "3"
      [] d = 4 -> "4" [] d = 5 -> "5" [] d = 6 -> "6" [] d = 7 -> "7"
      [] d = 8 -> "8" [] OTHER -> "9"

\* String(n) for n >= 0
RECURSIVE NumberToString(_)
NumberToString(n) ==
    IF n < 10 THEN <<DigitChar(n)>>
    ELSE Append(NumberToString(n \div 10), DigitChar(n % 10))

----------------------------------------------------------------------------
(* Evidence levels and sources.                                            *)

EVIDENCE_ORDER == <<"guideline", "sr_ma", "rct", "clinical_trial",
                    "observational", "case_report", "review", "other">>

EvidenceLevels == Range(EVIDENCE_ORDER)

EV_RANK ==
    [guideline |-> 0, sr_ma |-> 1, rct |-> 2, clinical_trial |-> 3,
     observational |-> 4, case_report |-> 5, review |-> 6, other |-> 7]

\* EV_RANK[a] ?? 7
RankOf(a) == IF a \in DOMAIN EV_RANK THEN EV_RANK[a] ELSE 7

SourceLabels == {"pubmed", "jstage", "s2", "openalex", "cinii", "epmc"}

----------------------------------------------------------------------------
(* The reconciler.                                                         *)

normalizeTitle(title) ==
    Trim(CollapseSpaces(
        SeqFilter(toLowerCase(title), WordChars \cup SpaceChars \cup CJKChars)))

\* .replace(/^https?:\/\/doi\.org\//, '')
StripDoiOrg(d) ==
    IF d # <<>> /\ Head(d) \in {"https://doi.org/", "http://doi.org/"}
    THEN Tail(d) ELSE d

TitleKeyMin == 10

\* >= for >: a title of exactly TitleKeyMin characters becomes a title key
dedupKeyOffByOne(r) ==
    IF r.doi # <<>> THEN <<"doi:">> \o StripDoiOrg(toLowerCase(r.doi))
    ELSE LET norm == normalizeTitle(r.title)
         IN IF Len(norm) >= TitleKeyMin
            THEN <<"t:">> \o norm \o <<":">>
                 \o (IF r.year # 0 THEN NumberToString(r.year) ELSE <<"?">>)
            ELSE <<"id:", r.id>>

\* the title key tried before the DOI
dedupKeyTitleFirst(r) ==
    LET norm == normalizeTitle(r.title)
    IN IF Len(norm) > TitleKeyMin
       THEN <<"t:">> \o norm \o <<":">>
            \o (IF r.year # 0 THEN NumberToString(r.year) ELSE <<"?">>)
       ELSE IF r.doi # <<>> THEN <<"doi:">> \o StripDoiOrg(toLowerCase(r.doi))
       ELSE <<"id:", r.id>>

dedupKey(r) ==
    IF r.doi # <<>> THEN <<"doi:">> \o StripDoiOrg(toLowerCase(r.doi))
    ELSE LET norm == normalizeTitle(r.title)
         IN IF Len(norm) > TitleKeyMin
            THEN <<"t:">> \o norm \o <<":">>
                 \o (IF r.year # 0 THEN NumberToString(r.year) ELSE <<"?">>)
            ELSE <<"id:", r.id>>

\* the level of the record seen first is kept
bestEvidenceFirst(a, b) == a

\* the comparison turned round: the less specific level wins
bestEvidenceWorst(a, b) == IF RankOf(a) >= RankOf(b) THEN a ELSE b

bestEvidence(a, b) == IF RankOf(a) <= RankOf(b) THEN a ELSE b

\* x || 0 on a citation count
OrZero(c) == IF c < 0 THEN 0 ELSE c

IsPubMedUrl(u) == u # <<>> /\ Head(u) = "https://pubmed.ncbi.nlm.nih.gov/"

\* existing.citations || newer.citations instead of the maximum
citationsAfterFirstTruthy(existing, newer) ==
    IF OrZero(existing.citations) # 0 THEN existing.citations
    ELSE OrZero(newer.citations)

\* Math.max(existing.citations || 0, newer.citations || 0)
citationsAfter(existing, newer) ==
    Max(OrZero(existing.citations), OrZero(newer.citations))

\* the includes() test left out: every colliding record pushes its source
foundInAfterPushAlways(existing, newer) ==
    Append(IF existing.foundIn = <<>> THEN <<existing.source>>
           ELSE existing.foundIn, newer.source)

\* the sources that found the article, first seen first
foundInAfter(existing, newer) ==
    LET found == IF existing.foundIn = <<>> THEN <<existing.source>>
                 ELSE existing.foundIn
    IN IF Includes(found, newer.source) THEN found
       ELSE Append(found, newer.source)

mergeInto(existing, newer) ==
    [existing EXCEPT
        !.evidenceLevel = bestEvidence(existing.evidenceLevel, newer.evidenceLevel),
        !.citations = citationsAfter(existing, newer),
        !.doi = IF existing.doi = <<>> /\ newer.doi # <<>>
                THEN newer.doi ELSE existing.doi,
        !.authors = IF Len(newer.authors) > Len(existing.authors)
                    THEN newer.authors ELSE existing.authors,
        !.journal = IF existing.journal = "" /\ newer.journal # ""
                    THEN newer.journal ELSE existing.journal,
        !.year = IF existing.year = 0 /\ newer.year # 0
                 THEN newer.year ELSE existing.year,
        !.url = IF IsPubMedUrl(newer.url) /\ ~IsPubMedUrl(existing.url)
                THEN newer.url ELSE existing.url,
        !.pubTypes = Unique(existing.pubTypes \o newer.pubTypes),
        !.foundIn = foundInAfter(existing, newer),
        !.language = IF existing.language = "" /\ newer.language # ""
                     THEN newer.language ELSE existing.language]

srcKey(source) ==
    CASE source = "PubMed" -> "pubmed"
      [] source = "J-STAGE" -> "jstage"
      [] source = "Semantic Scholar" -> "s2"
      [] source = "OpenAlex" -> "openalex"
      [] source = "Europe PMC" -> "epmc"
      [] OTHER -> "cinii"

\* the Map of deduplicateAndMerge, in insertion order, and the counts
EmptyMerge ==
    [keys |-> <<>>, results |-> <<>>, sourceCounts |-> [l \in SourceLabels |-> 0]]

KeyIndex(keys, key) == CHOOSE i \in 1..Len(keys) : keys[i] = key

\* sourceCounts[srcKey]++ moved out of the else branch
dedupStepCountsEvery(acc, r) ==
    LET key == dedupKey(r)
        counted == [acc.sourceCounts EXCEPT ![srcKey(r.source)] = @ + 1]
    IN IF Includes(acc.keys, key)
       THEN [acc EXCEPT !.results[KeyIndex(acc.keys, key)] = mergeInto(@, r),
                        !.sourceCounts = counted]
       ELSE [keys |-> Append(acc.keys, key),
             results |-> Append(acc.results, [r EXCEPT !.foundIn = <<r.source>>]),
             sourceCounts |-> counted]

\* one iteration of the for loop
dedupStep(acc, r) ==
    LET key == dedupKey(r)
    IN IF Includes(acc.keys, key)
       THEN [acc EXCEPT !.results[KeyIndex(acc.keys, key)] = mergeInto(@, r)]
       ELSE [keys |-> Append(acc.keys, key),
             results |-> Append(acc.results, [r EXCEPT !.foundIn = <<r.source>>]),
             sourceCounts |-> [acc.sourceCounts EXCEPT ![srcKey(r.source)] = @ + 1]]

RECURSIVE dedupLoop(_, _)
dedupLoop(acc, rest) ==
    IF rest = <<>> THEN acc
    ELSE LET next == dedupStep(acc, Head(rest))
         IN \* the Map holds a key after every iteration; the test has the
            \* Map of one iteration computed before the next iteration
            IF next.keys = <<>> THEN next ELSE dedupLoop(next, Tail(rest))

deduplicateAndMerge(input) ==
    LET out == dedupLoop(EmptyMerge, input)
    IN [results |-> out.results, sourceCounts |-> out.sourceCounts]

----------------------------------------------------------------------------
(* Records as the six adapters build them (foundIn is not set yet).        *)

Rec(id, title, authors, journal, year, pubTypes, evidenceLevel, doi, url, source, citations, language) ==
    [id |-> id, title |-> title, authors |-> authors, journal |-> journal,
     year |-> year, pubTypes |-> pubTypes, evidenceLevel |-> evidenceLevel,
     doi |-> doi, url |-> url, source |-> source, citations |-> citations,
     language |-> language, foundIn |-> <<>>]

\* "Knee pain 2!" and "knee  pain 2": both normalize to "knee pain 2" (11)
TitleLongA  == <<"K","n","e","e"," ","p","a","i","n"," ","2","!">>
TitleLongB  == <<"k","n","e","e"," "," ","p","a","i","n"," ","2">>
\* "Knee pains" and "KNEE PAINS": both normalize to "knee pains" (10)
TitleShortA == <<"K","n","e","e"," ","p","a","i","n","s">>
TitleShortB == <<"K","N","E","E"," ","P","A","I","N","S">>
TitleOther  == <<"G","a","i","t"," ","(","r","e",")","t","r","a","i","n","i","n","g">>

DoiAbc      == <<"1","0",".","1","/","a","b","c">>
DoiAbcUpper == <<"1","0",".","1","/","A","B","C">>
DoiAbcUrl   == <<"https://doi.org/">> \o DoiAbc

PubMedUrl(pmid) == <<"https://pubmed.ncbi.nlm.nih.gov/", pmid, "/">>
DoiUrl(doi)     == <<"https://doi.org/">> \o doi

RecPubMed ==
    Rec("pm-1", TitleLongA, <<"Sato", "Ito">>, "Lancet", 2020,
        <<"Randomized Controlled Trial">>, "rct", DoiAbc, PubMedUrl("1"),
        "PubMed", -1, "")
RecEPMC ==
    Rec("ep-7", TitleOther, <<"Sato S", "Ito K">>, "BMJ", 2021, <<"Review">>, "review",
        DoiAbcUpper, DoiUrl(DoiAbcUpper), "Europe PMC", 5, "")
RecOpenAlex ==
    Rec("oa-W1", TitleLongA, <<"Sato", "Ito", "Abe">>, "", 0, <<"review">>,
        "sr_ma", DoiAbc, DoiUrl(DoiAbc), "OpenAlex", 9, "en")
RecCiNiiDoi ==
    Rec("cn-3", TitleShortA, <<>>, "Rigaku", 2019, <<>>, "guideline",
        DoiAbcUrl, <<"https://cir.nii.ac.jp/crid/", "3">>, "CiNii", -1, "")
RecJStage ==
    Rec("js-a1", TitleLongA, <<"Ito">>, "Rigaku", 2019, <<>>, "observational",
        <<>>, <<"https://www.jstage.jst.go.jp/", "a1">>, "J-STAGE", -1, "")
RecCiNii ==
    Rec("cn-9", TitleLongB, <<>>, "", 2019, <<"Article">>, "case_report",
        <<>>, <<"https://cir.nii.ac.jp/crid/", "9">>, "CiNii", -1, "")
RecJStageNoYear ==
    Rec("js-b2", TitleLongB, <<"Abe">>, "", 0, <<>>, "other",
        <<>>, <<>>, "J-STAGE", -1, "")
RecS2 ==
    Rec("s2-k", TitleShortA, <<"Abe", "Ito">>, "Pain", 2018, <<"Review">>,
        "review", <<>>, <<"https://www.semanticscholar.org/paper/", "k">>,
        "Semantic Scholar", 3, "")
RecOpenAlexShort ==
    Rec("oa-W2", TitleShortB, <<"Abe">>, "", 2018, <<"article">>,
        "clinical_trial", <<>>, <<>>, "OpenAlex", 0, "ja")

RecOpenAlexJa ==
    Rec("oa-W3", TitleOther, <<>>, "Rigaku", 2019, <<>>, "other",
        DoiAbcUpper, DoiUrl(DoiAbcUpper), "OpenAlex", 0, "ja")

RecordPool ==
    {RecPubMed, RecEPMC, RecOpenAlex, RecCiNiiDoi, RecJStage, RecCiNii,
     RecJStageNoYear, RecS2, RecOpenAlexShort, RecOpenAlexJa}

\* the longest list handed to deduplicateAndMerge
MaxInput == 3

----------------------------------------------------------------------------
(* The synonym dictionary.  A term is the sequence of its characters;      *)
(* "U+xxxx" stands for the character with that code point.                 *)

SYNONYMS ==
    <<
       << <<"U+30EA","U+30CF">>,
          <<"U+30EA","U+30CF","U+30D3","U+30EA">>,
          <<"U+30EA","U+30CF","U+30D3","U+30EA","U+30C6","U+30FC","U+30B7","U+30E7","U+30F3">>,
          <<"r","e","h","a","b","i","l","i","t","a","t","i","o","n">> >>,
       << <<"P","T">>,
          <<"U+7406","U+5B66","U+7642","U+6CD5">>,
          <<"p","h","y","s","i","c","a","l"," ","t","h","e","r","a","p","y">>,
          <<"p","h","y","s","i","o","t","h","e","r","a","p","y">> >>,
       << <<"O","T">>,
          <<"U+4F5C","U+696D","U+7642","U+6CD5">>,
          <<"o","c","c","u","p","a","t","i","o","n","a","l"," ","t","h","e","r","a","p","y">> >>,
       << <<"S","T">>,
          <<"U+8A00","U+8A9E","U+8074","U+899A","U+7642","U+6CD5">>,
          <<"U+8A00","U+8A9E","U+7642","U+6CD5">>,
          <<"s","p","e","e","c","h"," ","t","h","e","r","a","p","y">> >>,
       << <<"O","A">>,
          <<"U+5909","U+5F62","U+6027","U+95A2","U+7BC0","U+75C7">>,
          <<"o","s","t","e","o","a","r","t","h","r","i","t","i","s">> >>,
       << <<"U+819D","O","A">>,
          <<"U+5909","U+5F62","U+6027","U+819D","U+95A2","U+7BC0","U+75C7">>,
          <<"k","n","e","e"," ","o","s","t","e","o","a","r","t","h","r","i","t","i","s">> >>,
       << <<"U+80A1","O","A">>,
          <<"U+5909","U+5F62","U+6027","U+80A1","U+95A2","U+7BC0","U+75C7">>,
          <<"h","i","p"," ","o","s","t","e","o","a","r","t","h","r","i","t","i","s">> >>,
       << <<"R","A">>,
          <<"U+95A2","U+7BC0","U+30EA","U+30A6","U+30DE","U+30C1">>,
          <<"r","h","e","u","m","a","t","o","i","d"," ","a","r","t","h","r","i","t","i","s">> >>,
       << <<"U+8133","U+5352","U+4E2D">>,
          <<"s","t","r","o","k","e">>,
          <<"U+8133","U+6897","U+585E">>,
          <<"U+8133","U+51FA","U+8840">>,
          <<"C","V","A">> >>,
       << <<"U+5FC3","U+7B4B","U+6897","U+585E">>,
          <<"M","I">>,
          <<"A","M","I">>,
          <<"U+6025","U+6027","U+5FC3","U+7B4B","U+6897","U+585E">>,
          <<"m","y","o","c","a","r","d","i","a","l"," ","i","n","f","a","r","c","t","i","o","n">> >>,
       << <<"U+5FC3","U+4E0D","U+5168">>,
          <<"H","F">>,
          <<"h","e","a","r","t"," ","f","a","i","l","u","r","e">>,
          <<"H","F","r","E","F">>,
          <<"H","F","p","E","F">> >>,
       << <<"C","O","P","D">>,
          <<"U+6162","U+6027","U+9589","U+585E","U+6027","U+80BA","U+75BE","U+60A3">> >>,
       << <<"D","M">>,
          <<"U+7CD6","U+5C3F","U+75C5">>,
          <<"d","i","a","b","e","t","e","s">> >>,
       << <<"A","L","S">>,
          <<"U+7B4B","U+840E","U+7E2E","U+6027","U+5074","U+7D22","U+786C","U+5316","U+75C7">> >>,
       << <<"P","D">>,
          <<"U+30D1","U+30FC","U+30AD","U+30F3","U+30BD","U+30F3","U+75C5">>,
          <<"P","a","r","k","i","n","s","o","n","'","s"," ","d","i","s","e","a","s","e">> >>,
       << <<"A","C","L">>,
          <<"U+524D","U+5341","U+5B57","U+9771","U+5E2F">>,
          <<"U+524D","U+5341","U+5B57","U+976D","U+5E2F">>,
          <<"a","n","t","e","r","i","o","r"," ","c","r","u","c","i","a","t","e"," ","l","i","g","a","m","e","n","t">> >>,
       << <<"T","K","A">>,
          <<"U+4EBA","U+5DE5","U+819D","U+95A2","U+7BC0">>,
          <<"U+4EBA","U+5DE5","U+819D","U+95A2","U+7BC0","U+7F6E","U+63DB","U+8853">> >>,
       << <<"T","H","A">>,
          <<"U+4EBA","U+5DE5","U+80A1","U+95A2","U+7BC0">>,
          <<"U+4EBA","U+5DE5","U+80A1","U+95A2","U+7BC0","U+7F6E","U+63DB","U+8853">> >>,
       << <<"I","C","U">>,
          <<"U+96C6","U+4E2D","U+6CBB","U+7642">>,
          <<"i","n","t","e","n","s","i","v","e"," ","c","a","r","e">> >>,
       << <<"B","P","P","V">>,
          <<"U+826F","U+6027","U+767A","U+4F5C","U+6027","U+982D","U+4F4D","U+3081","U+307E","U+3044","U+75C7">> >>,
       << <<"M","C","I">>,
          <<"U+8EFD","U+5EA6","U+8A8D","U+77E5","U+969C","U+5BB3">>,
          <<"m","i","l","d"," ","c","o","g","n","i","t","i","v","e"," ","i","m","p","a","i","r","m","e","n","t">> >>,
       << <<"U+904B","U+52D5","U+7642","U+6CD5">>,
          <<"e","x","e","r","c","i","s","e"," ","t","h","e","r","a","p","y">>,
          <<"U+904B","U+52D5">> >>,
       << <<"U+7269","U+7406","U+7642","U+6CD5">>,
          <<"p","h","y","s","i","c","a","l"," ","m","o","d","a","l","i","t","i","e","s">>,
          <<"U+7269","U+7642">> >>,
       << <<"U+5F92","U+624B","U+7642","U+6CD5">>,
          <<"m","a","n","u","a","l"," ","t","h","e","r","a","p","y">>,
          <<"U+5F92","U+624B">> >>,
       << <<"U+96FB","U+6C17","U+523A","U+6FC0">>,
          <<"N","M","E","S">>,
          <<"U+795E","U+7D4C","U+7B4B","U+96FB","U+6C17","U+523A","U+6FC0">>,
          <<"e","l","e","c","t","r","i","c","a","l"," ","s","t","i","m","u","l","a","t","i","o","n">> >>,
       << <<"T","E","N","S">>,
          <<"U+7D4C","U+76AE","U+7684","U+96FB","U+6C17","U+795E","U+7D4C","U+523A","U+6FC0">> >>,
       << <<"U+56A5","U+4E0B">>,
          <<"U+56A5","U+4E0B","U+969C","U+5BB3">>,
          <<"d","y","s","p","h","a","g","i","a">>,
          <<"U+56A5","U+4E0B","U+8A13","U+7DF4">> >>,
       << <<"A","D","L">>,
          <<"U+65E5","U+5E38","U+751F","U+6D3B","U+52D5","U+4F5C">>,
          <<"a","c","t","i","v","i","t","i","e","s"," ","o","f"," ","d","a","i","l","y"," ","l","i","v","i","n","g">> >>,
       << <<"Q","O","L">>,
          <<"U+751F","U+6D3B","U+306E","U+8CEA">>,
          <<"q","u","a","l","i","t","y"," ","o","f"," ","l","i","f","e">> >>,
       << <<"R","O","M">>,
          <<"U+95A2","U+7BC0","U+53EF","U+52D5","U+57DF">>,
          <<"r","a","n","g","e"," ","o","f"," ","m","o","t","i","o","n">> >>,
       << <<"N","S","A","I","D","s">>,
          <<"U+975E","U+30B9","U+30C6","U+30ED","U+30A4","U+30C9","U+6027","U+6297","U+708E","U+75C7","U+85AC">> >>,
       << <<"C","R","P","S">>,
          <<"U+8907","U+5408","U+6027","U+5C40","U+6240","U+75BC","U+75DB","U+75C7","U+5019","U+7FA4">> >>,
       << <<"D","V","T">>,
          <<"U+6DF1","U+90E8","U+9759","U+8108","U+8840","U+6813","U+75C7">> >>,
       << <<"V","T","E">>,
          <<"U+9759","U+8108","U+8840","U+6813","U+585E","U+6813","U+75C7">> >>
    >>

\* group.map(t => t.toLowerCase()), as a set, for every group
LowerClasses ==
    [g \in 1..Len(SYNONYMS) |->
        {toLowerCase(SYNONYMS[g][m]) : m \in 1..Len(SYNONYMS[g])}]

\* the terms of the table
TableTerms == UNION {Range(SYNONYMS[g]) : g \in 1..Len(SYNONYMS)}

\* the term looked up as it is written
lookupKeyExact(term) == term

\* term.toLowerCase()
lookupKey(term) == toLowerCase(term)

\* SYN_MAP.get(key): the members of every group that lists key, in the
\* order of the table; << >> for undefined
SYN_MAP(key) ==
    Unique(Flatten([g \in 1..Len(SYNONYMS) |->
                       IF key \in LowerClasses[g] THEN SYNONYMS[g] ELSE <<>>]))

\* a Set of the terms to which the synonyms of each term are added
expandSynonyms(terms) ==
    Unique(terms \o Flatten([i \in 1..Len(terms) |-> SYN_MAP(lookupKey(terms[i]))]))

----------------------------------------------------------------------------
(* Query strings.  A text is the sequence of its words; a query part is a  *)
(* text; join(' ') of parts is the words of all the parts in a row.        *)

EnWords == {"knee", "pain"}
\* stand-ins for words written in kana or kanji
JaWords == {"hiza", "itami"}

Join(parts) == Flatten(parts)

\* /[　-鿿豈-﫿]/.test(text)
isJapanese(text) == \E i \in 1..Len(text) : text[i] \in JaWords

\* q.split(/\s+/).filter(Boolean)
SplitWords(q) == [i \in 1..Len(q) |-> <<q[i]>>]

\* what the translation service answers for a word
Dictionary(w, tgtLang) ==
    IF tgtLang = "en"
    THEN CASE w = "hiza" -> "knee" [] w = "itami" -> "pain" [] OTHER -> w
    ELSE CASE w = "knee" -> "hiza" [] w = "pain" -> "itami" [] OTHER -> w

\* translate(): << >> stands for null.  upstream is "ok" or "error"
translate(text, srcLang, tgtLang, upstream) ==
    IF upstream = "error" THEN <<>>
    ELSE LET translated == [i \in 1..Len(text) |-> Dictionary(text[i], tgtLang)]
         IN IF translated = <<>> \/ translated = text THEN <<>> ELSE translated

----------------------------------------------------------------------------
(* handleSearch.                                                           *)

NoResponse == [status |-> 0]

\* lines 459-461: translatedDisease = '', translatedTreatment = '', translatedTopic = ''
NoFields == [disease |-> <<>>, treatment |-> <<>>, topic |-> <<>>]

SearchIdle ==
    /\ pc = "off"
    /\ req = [q |-> <<>>, disease |-> <<>>, treatment |-> <<>>, topic |-> <<>>,
              multilingual |-> FALSE]
    /\ queryParts = <<>>
    /\ expandedParts = <<>>
    /\ translatedFields = NoFields
    /\ translations = <<>>
    /\ translatedParts = <<>>
    /\ searches = <<>>
    /\ response = NoResponse

\* lines 437-444
BuildQueryParts(r) ==
    IF r.q # <<>> THEN SplitWords(r.q)
    ELSE SeqFilter(<<r.disease, r.treatment, r.topic>>,
                   {r.disease, r.treatment, r.topic} \ {<<>>})

isJaQuery == isJapanese(Join(queryParts))

needsTranslation(r, parts) == r.multilingual \/ isJapanese(Join(parts))

\* a translate() promise: pending or fulfilled with a value (it never rejects)
Pending         == [state |-> "pending", value |-> <<>>, reason |-> <<>>]
Fulfilled(v)    == [state |-> "fulfilled", value |-> v, reason |-> <<>>]

\* Promise.all in place of Promise.allSettled: the first rejection settles it
AllSettledFailFast(promises) ==
    \/ \A i \in 1..Len(promises) : promises[i].state # "pending"
    \/ \E i \in 1..Len(promises) : promises[i].state = "rejected"

\* Promise.allSettled(promises) has resolved
AllSettled(promises) ==
    \A i \in 1..Len(promises) : promises[i].state # "pending"

\* t.status === 'fulfilled' && t.value ? t.value : null
SettledValues(promises) ==
    [i \in 1..Len(promises) |->
        IF promises[i].state = "fulfilled" THEN promises[i].value ELSE <<>>]

\* .filter(Boolean) on a list of strings and nulls
FilterBoolean(list) == SeqFilter(list, Range(list) \ {<<>>})

\* an adapter call pushed to searches, and its label pushed to searchLabels:
\* a pending promise; up is what the source answered once it has settled
Task(label, arg) ==
    [label |-> label, arg |-> arg, state |-> "pending", up |-> "none"]

PartsArg(parts) == [kind |-> "parts", v |-> parts]
TextArg(text)   == [kind |-> "text", v |-> text]

SixSources(parts, text) ==
    << Task("pubmed", PartsArg(parts)), Task("jstage", TextArg(text)),
       Task("s2", TextArg(text)), Task("openalex", TextArg(text)),
       Task("cinii", TextArg(text)), Task("epmc", TextArg(text)) >>

\* lines 489-490
EnText(parts, translated) ==
    Join(IF isJapanese(Join(parts)) /\ translated # <<>> THEN translated ELSE parts)

\* the trailing OpenAlex and Europe PMC calls with the English text left out
JapanesePlanNoEnglishExtra(parts, translated) ==
    (IF translated # <<>>
     THEN << Task("pubmed", PartsArg(translated)),
             Task("s2", TextArg(EnText(parts, translated))) >>
     ELSE <<>>)
    \o << Task("jstage", TextArg(Join(parts))), Task("openalex", TextArg(Join(parts))),
          Task("cinii", TextArg(Join(parts))), Task("epmc", TextArg(Join(parts))) >>

\* lines 497-509: a Japanese query without the multilingual flag
JapanesePlan(parts, translated) ==
    (IF translated # <<>>
     THEN << Task("pubmed", PartsArg(translated)),
             Task("s2", TextArg(EnText(parts, translated))) >>
     ELSE <<>>)
    \o << Task("jstage", TextArg(Join(parts))), Task("openalex", TextArg(Join(parts))),
          Task("cinii", TextArg(Join(parts))), Task("epmc", TextArg(Join(parts))) >>
    \o (IF translated # <<>>
        THEN << Task("openalex", TextArg(EnText(parts, translated))),
                Task("epmc", TextArg(EnText(parts, translated))) >>
        ELSE <<>>)

\* lines 512-519: both languages to all sources
MultilingualPlan(parts, translated) ==
    SixSources(parts, Join(parts))
    \o SixSources(translated, EnText(parts, translated))

\* lines 522-527
DefaultPlan(parts) == SixSources(parts, Join(parts))

\* the test of translatedParts?.length left out of the second branch
PlanKindIgnoresFailure(parts, translated, multilingual) ==
    IF isJapanese(Join(parts)) /\ ~multilingual THEN "japanese"
    ELSE IF multilingual THEN "multilingual"
    ELSE "default"

\* lines 492, 510, 520: the branch taken
PlanKind(parts, translated, multilingual) ==
    IF isJapanese(Join(parts)) /\ ~multilingual THEN "japanese"
    ELSE IF multilingual /\ translated # <<>> THEN "multilingual"
    ELSE "default"

\* the plan built from the expanded parts
BuildSearchesExpanded(parts, translated, multilingual) ==
    LET kind == PlanKind(parts, translated, multilingual)
        expanded == expandSynonyms(parts)
    IN IF kind = "japanese" THEN JapanesePlan(expanded, translated)
       ELSE IF kind = "multilingual" THEN MultilingualPlan(expanded, translated)
       ELSE DefaultPlan(expanded)

\* lines 486-528: the tasks pushed to searches, in order
BuildSearches(parts, translated, multilingual) ==
    LET kind == PlanKind(parts, translated, multilingual)
    IN IF kind = "japanese" THEN JapanesePlan(parts, translated)
       ELSE IF kind = "multilingual" THEN MultilingualPlan(parts, translated)
       ELSE DefaultPlan(parts)

\* translatedParts[idx] || '' for the field that is the idx-th present one
TranslatedField(r, settled, field) ==
    LET idx == (IF field = "disease" THEN 0
                ELSE IF field = "treatment"
                     THEN (IF r.disease # <<>> THEN 1 ELSE 0)
                     ELSE (IF r.disease # <<>> THEN 1 ELSE 0)
                          + (IF r.treatment # <<>> THEN 1 ELSE 0)) + 1
    IN IF r[field] # <<>> /\ r.multilingual /\ idx <= Len(settled)
       THEN settled[idx] ELSE <<>>

\* lines 429-448, and up to the first await: the translations (line 467) or,
\* without translation, the searches (line 530)
Receive ==
    /\ pc = "idle"
    /\ queryParts' = BuildQueryParts(req)
    /\ expandedParts' = IF queryParts' = <<>> THEN expandedParts
                        ELSE expandSynonyms(queryParts')
    /\ IF queryParts' = <<>>
       THEN /\ response' = [status |-> 400]
            /\ pc' = "done"
            /\ UNCHANGED <<translations, translatedParts, searches>>
       ELSE IF needsTranslation(req, queryParts')
       THEN /\ translations' = [i \in 1..Len(queryParts') |-> Pending]
            /\ pc' = "translating"
            /\ UNCHANGED <<translatedParts, searches, response>>
       ELSE /\ searches' = BuildSearches(queryParts', <<>>, req.multilingual)
            /\ pc' = "searching"
            /\ UNCHANGED <<translations, translatedParts, response>>
    /\ UNCHANGED <<req, translatedFields, outsideSearch>>

\* one translate() promise settles; translate never rejects
TranslateSettle(i, upstream) ==
    /\ pc = "translating"
    /\ translations[i].state = "pending"
    /\ translations' = [translations EXCEPT ![i] =
           Fulfilled(translate(queryParts[i], IF isJaQuery THEN "ja" ELSE "en",
                               IF isJaQuery THEN "en" ELSE "ja", upstream))]
    /\ UNCHANGED <<pc, req, queryParts, expandedParts, translatedFields, translatedParts,
                   searches, response,
                   outsideSearch>>

\* lines 470-528: after Promise.allSettled of the translations
Plan ==
    /\ pc = "translating"
    /\ AllSettled(translations)
    /\ translatedFields' =
          [f \in {"disease", "treatment", "topic"} |->
              TranslatedField(req, SettledValues(translations), f)]
    /\ translatedParts' = FilterBoolean(SettledValues(translations))
    /\ searches' = BuildSearches(queryParts, translatedParts', req.multilingual)
    /\ pc' = "searching"
    /\ UNCHANGED <<req, queryParts, expandedParts, translations, response,
                   outsideSearch>>

\* line 451 alone: expandSynonyms applied to a list of terms
Expand ==
    /\ pc = "expand"
    /\ expandedParts' = expandSynonyms(queryParts)
    /\ pc' = "expanded"
    /\ UNCHANGED <<req, queryParts, translatedFields, translations, translatedParts, searches,
                   response,
                   outsideSearch>>

----------------------------------------------------------------------------
(* The local searches over the guideline and clinical-question data.  The  *)
(* data files are tables of the deployment; a few rows stand for them.     *)

\* haystack.includes(needle)
SeqIncludes(haystack, needle) ==
    \E i \in 0..(Len(haystack) - Len(needle)) :
        SubSeq(haystack, i + 1, i + Len(needle)) = needle

GUIDELINES ==
    << [id |-> "g1", title |-> <<"knee", "pain", "guideline">>, year |-> 2020,
        diseases |-> << <<"knee", "pain">>, <<"O", "A">> >>],
       [id |-> "g2", title |-> <<"stroke", "guideline">>, year |-> 2021,
        diseases |-> << <<"Stroke">> >>],
       [id |-> "g3", title |-> <<"knee", "guideline">>, year |-> 0,
        diseases |-> << <<"knee">> >>],
       [id |-> "g4", title |-> <<"hip", "and", "knee", "guideline">>, year |-> 2019,
        diseases |-> << <<"knee">>, <<"hip">> >>],
       [id |-> "g5", title |-> <<"pain", "guideline">>, year |-> 2022,
        diseases |-> << <<"pain">> >>],
       [id |-> "g6",
        title |-> <<"U+5909", "U+5F62", "U+6027", "U+95A2", "U+7BC0", "U+75C7", "guideline">>,
        year |-> 2023,
        diseases |-> << <<"U+5909", "U+5F62", "U+6027", "U+95A2", "U+7BC0", "U+75C7">> >>],
       \* a row spelled out in characters: "Stroke GL", diseases stroke, gait
       [id |-> "g7", title |-> <<"S","t","r","o","k","e"," ","G","L">>, year |-> 2021,
        diseases |-> << <<"s","t","r","o","k","e">>, <<"g","a","i","t">> >>] >>

CQ_DATA ==
    << [gid |-> "g1", cq |-> "CQ1", q |-> <<"does", "exercise", "help", "knee", "pain">>,
        kw |-> << <<"knee", "pain">>, <<"exercise">> >>],
       [gid |-> "g2", cq |-> "CQ2", q |-> <<"stroke", "rehabilitation">>,
        kw |-> << <<"Stroke">> >>],
       [gid |-> "g9", cq |-> "CQ3", q |-> <<"knee", "surgery">>,
        kw |-> << <<"knee">> >>],
       [gid |-> "g5", cq |-> "CQ4", q |-> <<"pain", "control">>,
        kw |-> << <<"pain">>, <<"O", "A">> >>],
       \* a row spelled out in characters: "PT after stroke", keyword PT
       [gid |-> "g7", cq |-> "CQ5",
        q |-> <<"P","T"," ","a","f","t","e","r"," ","s","t","r","o","k","e">>,
        kw |-> << <<"P","T">> >>] >>

\* [...queryParts, ...translatedParts].map(t => t.toLowerCase())
localTerms(parts, translated) ==
    [i \in 1..(Len(parts) + Len(translated)) |-> toLowerCase((parts \o translated)[i])]

\* the two keyword awards both given: else left out of line 1314
termScoreBoth(keywords, text, term) ==
    (IF \E i \in 1..Len(keywords) : toLowerCase(keywords[i]) = term THEN 10 ELSE 0)
    + (IF \E i \in 1..Len(keywords) :
             \/ SeqIncludes(toLowerCase(keywords[i]), term)
             \/ SeqIncludes(term, toLowerCase(keywords[i]))
       THEN 5 ELSE 0)
    + (IF SeqIncludes(toLowerCase(text), term) THEN 3 ELSE 0)

\* what one term adds to the score of an entry with these keywords and text
termScore(keywords, text, term) ==
    (IF \E i \in 1..Len(keywords) : toLowerCase(keywords[i]) = term THEN 10
     ELSE IF \E i \in 1..Len(keywords) :
                \/ SeqIncludes(toLowerCase(keywords[i]), term)
                \/ SeqIncludes(term, toLowerCase(keywords[i]))
          THEN 5 ELSE 0)
    + (IF SeqIncludes(toLowerCase(text), term) THEN 3 ELSE 0)

RECURSIVE scoreOf(_, _, _)
scoreOf(keywords, text, terms) ==
    IF terms = <<>> THEN 0
    ELSE termScore(keywords, text, Head(terms)) + scoreOf(keywords, text, Tail(terms))

\* score >= 0: every entry is kept
isHitOrZero(score) == score >= 0

\* if (score > 0)
isHit(score) == score > 0

\* b.score - a.score || (b.year || 0) - (a.year || 0) is negative: a goes
\* in front of b
glBefore(a, b) == a.score > b.score \/ (a.score = b.score /\ a.year > b.year)

\* b.score - a.score is negative
cqBefore(a, b) == a.score > b.score

\* the stable sort of the scored guidelines
RECURSIVE sortGuidelines(_)
sortGuidelines(list) ==
    IF list = <<>> THEN <<>>
    ELSE LET r == list[Len(list)]
             sorted == sortGuidelines(SubSeq(list, 1, Len(list) - 1))
         IN SelectSeq(sorted, LAMBDA x : ~glBefore(r, x)) \o <<r>>
            \o SelectSeq(sorted, LAMBDA x : glBefore(r, x))

\* the stable sort of the scored clinical questions
RECURSIVE sortQuestions(_)
sortQuestions(list) ==
    IF list = <<>> THEN <<>>
    ELSE LET r == list[Len(list)]
             sorted == sortQuestions(SubSeq(list, 1, Len(list) - 1))
         IN SelectSeq(sorted, LAMBDA x : ~cqBefore(r, x)) \o <<r>>
            \o SelectSeq(sorted, LAMBDA x : cqBefore(r, x))

searchNationalGuidelines(parts, translated) ==
    LET terms == localTerms(parts, translated)
        all == [i \in 1..Len(GUIDELINES) |->
                   [id |-> <<"gl-", GUIDELINES[i].id>>, title |-> GUIDELINES[i].title,
                    year |-> GUIDELINES[i].year,
                    score |-> scoreOf(GUIDELINES[i].diseases, GUIDELINES[i].title, terms)]]
    IN sortGuidelines(SelectSeq(all, LAMBDA e : isHit(e.score)))

\* glMap.get(cq.gid): the title of the guideline, '' without one
guidelineTitle(gid) ==
    IF \E i \in 1..Len(GUIDELINES) : GUIDELINES[i].id = gid
    THEN GUIDELINES[CHOOSE i \in 1..Len(GUIDELINES) : GUIDELINES[i].id = gid].title
    ELSE <<>>

searchClinicalQuestions(parts, translated) ==
    LET terms == localTerms(parts, translated)
        all == [i \in 1..Len(CQ_DATA) |->
                   [gid |-> CQ_DATA[i].gid, cq |-> CQ_DATA[i].cq,
                    guidelineTitle |-> guidelineTitle(CQ_DATA[i].gid),
                    score |-> scoreOf(CQ_DATA[i].kw, CQ_DATA[i].q, terms)]]
    IN sortQuestions(SelectSeq(all, LAMBDA e : isHit(e.score)))

\* lines 549-554 alone: the two local searches on given lists of terms
LocalStep(from) ==
    /\ pc = from
    /\ response' =
          [status |-> 200,
           nationalGuidelines |-> searchNationalGuidelines(expandedParts, translatedParts),
           clinicalQuestions |-> searchClinicalQuestions(expandedParts, translatedParts)]
    /\ pc' = "scored"
    /\ UNCHANGED <<req, queryParts, expandedParts, translatedFields, translations, translatedParts,
                   searches, outsideSearch>>

LocalSearch == LocalStep("local")

\* the same lines reached from line 451
LocalAfterExpand == LocalStep("expanded")

----------------------------------------------------------------------------
(* The rate limiter: checkRateLimit and the part of fetch in front of the  *)
(* handlers.  Time is Date.now() in milliseconds.                          *)

RATE_LIMIT == 60

RATE_WINDOW == 60000

ClientIPs == {"1.2.3.4", "unknown"}

\* Date.now() of the first request, and the instants at which requests arrive
StartTime == 1000000

Clock == {StartTime, StartTime + 1, StartTime + RATE_WINDOW,
          StartTime + RATE_WINDOW + 1, StartTime + RATE_WINDOW + 2}

NoWindow == -1

\* now - entry.start >= RATE_WINDOW: the window ends a millisecond earlier
windowExpiredAtLimit(start, t) == t - start >= RATE_WINDOW

\* now - entry.start > RATE_WINDOW
windowExpired(start, t) == t - start > RATE_WINDOW

\* count >= RATE_LIMIT refused: the 60th request is turned away
overLimitOffByOne(count) == count >= RATE_LIMIT

\* entry.count > RATE_LIMIT
overLimit(count) == count > RATE_LIMIT

\* the periodic removal takes every entry, stale or not
cleanupEveryEntry(map, last, t) ==
    IF t - last > RATE_WINDOW THEN [k \in {} |-> 0] ELSE map

\* lines 41-46: the map after the periodic removal of the stale entries
cleanup(map, last, t) ==
    IF t - last > RATE_WINDOW
    THEN [k \in {i \in DOMAIN map : ~windowExpired(map[i].start, t)} |-> map[k]]
    ELSE map

\* one counter for all clients: a request is refused when any entry of the
\* table is over the limit
checkRateLimitAnyEntry(map, last, ip, t) ==
    LET cleaned == cleanup(map, last, t)
        last2   == IF t - last > RATE_WINDOW THEN t ELSE last
    IN IF ip \notin DOMAIN cleaned \/ windowExpired(cleaned[ip].start, t)
       THEN [map |-> (ip :> [start |-> t, count |-> 1]) @@ cleaned,
             lastCleanup |-> last2, allowed |-> TRUE]
       ELSE [map |-> [cleaned EXCEPT ![ip].count = @ + 1],
             lastCleanup |-> last2,
             allowed |-> \A k \in DOMAIN cleaned : ~overLimit(cleaned[k].count + 1)]

\* checkRateLimit(ip) at time t: the map and lastCleanup it leaves, and
\* what it returns
checkRateLimit(map, last, ip, t) ==
    LET cleaned == cleanup(map, last, t)
        last2   == IF t - last > RATE_WINDOW THEN t ELSE last
    IN IF ip \notin DOMAIN cleaned \/ windowExpired(cleaned[ip].start, t)
       THEN [map |-> (ip :> [start |-> t, count |-> 1]) @@ cleaned,
             lastCleanup |-> last2, allowed |-> TRUE]
       ELSE [map |-> [cleaned EXCEPT ![ip].count = @ + 1],
             lastCleanup |-> last2,
             allowed |-> ~overLimit(cleaned[ip].count + 1)]

NoFetch == [method |-> "none"]

LimitIdle ==
    /\ rateLimitMap = [k \in {} |-> 0]
    /\ lastCleanup = 0
    /\ now = StartTime
    /\ inflight = 0
    /\ opened = [ip \in ClientIPs |-> NoWindow]
    /\ seen = [ip \in ClientIPs |-> 0]
    /\ lastFetch = NoFetch

\* the requests the busy IP sends beyond RATE_LIMIT in a window, the
\* requests the other one sends in a window, and the handlers that run at
\* a time
MaxOver == 2

MaxOther == 2

MaxInflight == 2

Quota(ip) == IF ip = "1.2.3.4" THEN RATE_LIMIT + MaxOver ELSE MaxOther

\* time passes
Tick ==
    /\ \E t \in Clock : t > now /\ now' = t
    /\ UNCHANGED <<rateLimitMap, lastCleanup, inflight, opened, seen, lastFetch>>
    /\ UNCHANGED outsideLimit

\* lines 64-66: a preflight request is answered before the limiter
FetchOptions(ip) ==
    /\ lastFetch' = [method |-> "OPTIONS", ip |-> ip, status |-> 200,
                     retryAfter |-> "", routed |-> FALSE, ordinal |-> 0,
                     elapsed |-> 0, before |-> 0, start |-> 0, count |-> 0,
                     at |-> now]
    /\ UNCHANGED <<rateLimitMap, lastCleanup, now, inflight, opened, seen>>
    /\ UNCHANGED outsideLimit

\* lines 69-75: any other request goes through checkRateLimit and is then
\* answered with 429 or routed to its handler
FetchStep(ip) ==
    /\ inflight < MaxInflight
    /\ LET opens == opened[ip] = NoWindow \/ now - opened[ip] > RATE_WINDOW
       IN /\ opens \/ seen[ip] < Quota(ip)
          /\ LET out == checkRateLimit(rateLimitMap, lastCleanup, ip, now)
             IN /\ rateLimitMap' = out.map
                /\ lastCleanup' = out.lastCleanup
                /\ inflight' = IF out.allowed THEN inflight + 1 ELSE inflight
                /\ opened' = [opened EXCEPT ![ip] = IF opens THEN now ELSE @]
                /\ seen' = [seen EXCEPT ![ip] = IF opens THEN 1 ELSE @ + 1]
                /\ lastFetch' =
                      [method |-> "GET", ip |-> ip,
                       status |-> IF out.allowed THEN 0 ELSE 429,
                       retryAfter |-> IF out.allowed THEN "" ELSE "60",
                       routed |-> out.allowed,
                       ordinal |-> seen'[ip],
                       elapsed |-> IF opened[ip] = NoWindow THEN NoWindow
                                   ELSE now - opened[ip],
                       before |-> seen[ip],
                       start |-> out.map[ip].start,
                       count |-> out.map[ip].count,
                       at |-> now]
    /\ UNCHANGED now

Fetch(ip) == FetchStep(ip) /\ UNCHANGED outsideLimit

\* the worker that receives the requests of ip only, before the request
AloneBefore(ip) ==
    IF ip \in DOMAIN alone THEN alone[ip]
    ELSE [map |-> [k \in {} |-> 0], lastCleanup |-> 0]

\* fetch, and the same request given to the worker that serves ip alone
FetchBoth(ip) ==
    /\ FetchStep(ip)
    /\ LET out == checkRateLimit(AloneBefore(ip).map, AloneBefore(ip).lastCleanup, ip, now)
       IN alone' = (ip :> [map |-> out.map, lastCleanup |-> out.lastCleanup,
                           allowed |-> out.allowed]) @@ alone
    /\ UNCHANGED <<searchVars, mergeVars, groupVars, classVars, corsVars, settledOrder>>

\* the handler of an admitted request returns
HandlerReturns ==
    /\ inflight > 0
    /\ inflight' = inflight - 1
    /\ UNCHANGED <<rateLimitMap, lastCleanup, now, opened, seen, lastFetch>>
    /\ UNCHANGED outsideLimit

----------------------------------------------------------------------------
(* groupByEvidence.                                                        *)

\* names every object inherits from Object.prototype: grouped[name] is
\* truthy for them although grouped has no such bucket
ObjectPrototypeKeys == {"constructor", "toString", "valueOf", "__proto__"}

\* grouped[r.evidenceLevel] ? r.evidenceLevel : 'other'
bucketOf(r) ==
    IF r.evidenceLevel \in EvidenceLevels \cup ObjectPrototypeKeys
    THEN r.evidenceLevel ELSE "other"

\* the comparator turned round: ascending years
insertByYearAscending(sorted, r) ==
    LET before == SelectSeq(sorted, LAMBDA x : x.year <= r.year)
        after  == SelectSeq(sorted, LAMBDA x : x.year > r.year)
    IN before \o <<r>> \o after

\* one step of the stable sort by (b.year || 0) - (a.year || 0): r goes
\* behind the records whose year is not smaller (a null year is 0)
insertByYear(sorted, r) ==
    LET before == SelectSeq(sorted, LAMBDA x : x.year >= r.year)
        after  == SelectSeq(sorted, LAMBDA x : x.year < r.year)
    IN before \o <<r>> \o after

RECURSIVE sortByYear(_)
sortByYear(list) ==
    IF list = <<>> THEN <<>>
    ELSE insertByYear(sortByYear(SubSeq(list, 1, Len(list) - 1)), list[Len(list)])

\* grouped[level].push(r) on something that is not an array
Thrown == [error |-> "TypeError"]

groupByEvidence(results) ==
    IF \E i \in 1..Len(results) : bucketOf(results[i]) \notin EvidenceLevels
    THEN Thrown
    ELSE [level \in EvidenceLevels |->
             sortByYear(SelectSeq(results, LAMBDA r : bucketOf(r) = level))]

NoGroups == [level \in EvidenceLevels |-> <<>>]

GroupIdle == grouped = NoGroups

\* reconciled records of one level with years out of order, equal and
\* missing, one of another level and two whose level is not a known one
GRec(id, level, year) ==
    Rec(id, TitleOther, <<>>, "", year, <<>>, level, <<>>, <<>>, "OpenAlex", 0, "")

GroupPool ==
    {GRec("oa-1", "rct", 2020), GRec("oa-2", "rct", 2021), GRec("oa-3", "rct", 0),
     GRec("oa-4", "rct", 2020), GRec("oa-5", "editorial", 2019),
     GRec("oa-6", "other", 2022), GRec("oa-7", "constructor", 2020)}

\* the longest list handed to groupByEvidence
MaxGroup == 4

\* line 568: groupByEvidence(results)
Group ==
    /\ mpc = "done"
    /\ grouped' = groupByEvidence(merged.results)
    /\ mpc' = "grouped"
    /\ UNCHANGED <<allResults, merged>>
    /\ UNCHANGED <<searchVars, limitVars, pureVars>>

----------------------------------------------------------------------------
(* The six adapters, seen from handleSearch: a call fulfils with the       *)
(* records the source holds for the query or rejects with an Error.        *)

ArgText(arg) == IF arg.kind = "parts" THEN Join(arg.v) ELSE arg.v

\* what each source holds
AdapterRecords(label, arg) ==
    LET ja == isJapanese(ArgText(arg))
    IN CASE label = "pubmed"   -> IF ja THEN <<>> ELSE <<RecPubMed>>
         [] label = "jstage"   -> IF ja THEN <<RecJStage, RecJStageNoYear>> ELSE <<>>
         [] label = "s2"       -> <<RecS2>>
         [] label = "openalex" -> IF ja THEN <<RecOpenAlexJa, RecOpenAlexShort>>
                                  ELSE <<RecOpenAlex>>
         [] label = "cinii"    -> IF ja THEN <<RecCiNii>> ELSE <<RecCiNiiDoi>>
         [] OTHER              -> <<RecEPMC>>

ErrorPrefix(label) ==
    CASE label = "pubmed"   -> "PubMed search HTTP "
      [] label = "jstage"   -> "J-STAGE HTTP "
      [] label = "s2"       -> "S2 HTTP "
      [] label = "openalex" -> "OpenAlex HTTP "
      [] label = "cinii"    -> "CiNii HTTP "
      [] OTHER              -> "EPMC HTTP "

\* the message of the Error of a failed call: a source that is down answers
\* a query in Latin script with HTTP 500 and lets a Japanese one time out
AdapterError(label, arg) ==
    IF isJapanese(ArgText(arg))
    THEN <<"The operation was aborted due to timeout">>
    ELSE <<ErrorPrefix(label), "500">>

\* what the upstream of a source may answer: "ok" (200 with records),
\* "down" (an outage) and, for Semantic Scholar, "busy" (HTTP 429)
Upstream == {"ok", "down", "busy"}

Outcomes(label) == IF label = "s2" THEN Upstream ELSE Upstream \ {"busy"}

\* line 781 left out: a 429 rejects like every other status
settleAsNoGrace(label, up) == IF up = "ok" THEN "fulfilled" ELSE "rejected"

\* how the promise of an adapter settles: searchS2 returns [] on 429
\* (line 781); every other failure throws
settleAs(label, up) ==
    IF up = "ok" \/ (label = "s2" /\ up = "busy") THEN "fulfilled" ELSE "rejected"

\* the value of a fulfilled adapter promise
ValueOf(task) ==
    IF task.state = "fulfilled" /\ task.up = "ok"
    THEN AdapterRecords(task.label, task.arg) ELSE <<>>

\* reason.message of a rejected adapter promise
ReasonOf(task) ==
    IF task.state # "rejected" THEN <<>>
    ELSE IF task.up = "busy" THEN <<ErrorPrefix(task.label), "429">>
    ELSE AdapterError(task.label, task.arg)

\* lines 533-543, the rejected branch with the test of sourceErrors[label]
\* turned round
sourceErrorsAfterNeverSet(errors, task) ==
    IF task.state = "rejected" /\ task.label \in DOMAIN errors
       /\ errors[task.label] # <<>>
    THEN (task.label :> ReasonOf(task)) @@ errors
    ELSE errors

\* the test of sourceErrors[label] left out: the last failure wins
sourceErrorsAfterOverwrite(errors, task) ==
    IF task.state = "rejected"
    THEN (task.label :> ReasonOf(task)) @@ errors
    ELSE errors

\* lines 538-539: if (!sourceErrors[label]) sourceErrors[label] = message
sourceErrorsAfter(errors, task) ==
    IF task.state = "rejected"
       /\ (task.label \notin DOMAIN errors \/ errors[task.label] = <<>>)
    THEN (task.label :> ReasonOf(task)) @@ errors
    ELSE errors

RECURSIVE CollectErrors(_, _)
CollectErrors(errors, tasks) ==
    IF tasks = <<>> THEN errors
    ELSE CollectErrors(sourceErrorsAfter(errors, Head(tasks)), Tail(tasks))

\* the values pushed as the tasks settle, not in the order of searches
RECURSIVE PushedAsSettled(_, _)
PushedAsSettled(tasks, order) ==
    IF order = <<>> THEN <<>>
    ELSE (IF tasks[Head(order)].state = "rejected" THEN <<>>
          ELSE ValueOf(tasks[Head(order)]))
         \o PushedAsSettled(tasks, Tail(order))

CollectResultsAsSettled(tasks) == PushedAsSettled(tasks, settledOrder)

\* lines 540-542: allResults.push(...s.value) for the fulfilled tasks
RECURSIVE CollectResults(_)
CollectResults(tasks) ==
    IF tasks = <<>> THEN <<>>
    ELSE (IF Head(tasks).state = "rejected" THEN <<>> ELSE ValueOf(Head(tasks)))
         \o CollectResults(Tail(tasks))

NoErrors == [l \in {} |-> <<>>]

\* one adapter promise settles
SettleTask(i, up) ==
    /\ pc = "searching"
    /\ searches[i].state = "pending"
    /\ up \in Outcomes(searches[i].label)
    /\ searches' = [searches EXCEPT ![i].up = up,
                                    ![i].state = settleAs(searches[i].label, up)]
    /\ UNCHANGED <<pc, req, queryParts, expandedParts, translatedFields, translations,
                   translatedParts, response>>

SearchSettle(i, up) ==
    /\ SettleTask(i, up)
    /\ UNCHANGED outsideSearch

\* the same step with the order of settling written down
SettleRecorded(i, up) ==
    /\ SettleTask(i, up)
    /\ settledOrder' = Append(settledOrder, i)
    /\ UNCHANGED <<mergeVars, limitVars, groupVars, classVars, corsVars, alone>>

\* lines 530-573: after Promise.allSettled(searches)
Collect ==
    /\ pc = "searching"
    /\ AllSettled(searches)
    /\ LET out == deduplicateAndMerge(CollectResults(searches))
           nationalGL == searchNationalGuidelines(expandedParts, translatedParts)
           clinicalQuestions == searchClinicalQuestions(expandedParts, translatedParts)
       IN response' =
            [status |-> 200,
             multilingual |-> req.multilingual,
             translated |-> translatedFields,
             totalCount |-> Len(out.results),
             results |-> groupByEvidence(out.results),
             nationalGuidelines |-> nationalGL,
             clinicalQuestions |-> clinicalQuestions,
             sourceCounts |-> ("nationalGL" :> Len(nationalGL))
                             @@ ("clinicalQuestions" :> Len(clinicalQuestions))
                             @@ out.sourceCounts,
             errors |-> CollectErrors(NoErrors, searches)]
    /\ pc' = "done"
    /\ UNCHANGED <<req, queryParts, expandedParts, translatedFields, translations,
                   translatedParts, searches,
                   outsideSearch>>

MergeIdle ==
    /\ allResults = <<>>
    /\ merged = [results |-> <<>>, sourceCounts |-> [l \in SourceLabels |-> 0]]
    /\ mpc = "off"

----------------------------------------------------------------------------
(* classifyByTitle.  A title is a sequence of characters.                  *)

\* the regular expressions of the cascade, in order: the level returned,
\* whether the title is tested as given (tj) or lowercased (t), and the
\* alternatives that are plain strings ([\s-]? and ? written out)
TitlePatterns ==
    <<
       [out |-> "guideline", raw |-> FALSE,
        lits |-> {
            <<"U+30AC","U+30A4","U+30C9","U+30E9","U+30A4","U+30F3">>,
            <<"g","u","i","d","e","l","i","n","e">>,
            <<"U+63A8","U+5968","U+30B0","U+30EC","U+30FC","U+30C9">>,
            <<"c","l","i","n","i","c","a","l"," ","r","e","c","o","m","m","e","n","d","a","t","i","o","n">>,
            <<"p","r","a","c","t","i","c","e"," ","p","a","r","a","m","e","t","e","r">>,
            <<"c","o","n","s","e","n","s","u","s"," ","s","t","a","t","e","m","e","n","t">> }],
       [out |-> "sr_ma", raw |-> FALSE,
        lits |-> {
            <<"U+30B7","U+30B9","U+30C6","U+30DE","U+30C6","U+30A3","U+30C3","U+30AF">>,
            <<"s","y","s","t","e","m","a","t","i","c">>,
            <<"U+30E1","U+30BF","U+30A2","U+30CA","U+30EA","U+30B7","U+30B9">>,
            <<"m","e","t","a","a","n","a","l","y","s","i","s">>,
            <<"m","e","t","a"," ","a","n","a","l","y","s","i","s">>,
            <<"m","e","t","a","\t","a","n","a","l","y","s","i","s">>,
            <<"m","e","t","a","-","a","n","a","l","y","s","i","s">>,
            <<"U+30E1","U+30BF","U+5206","U+6790">>,
            <<"u","m","b","r","e","l","l","a"," ","r","e","v","i","e","w">>,
            <<"s","c","o","p","i","n","g"," ","r","e","v","i","e","w">> }],
       [out |-> "rct", raw |-> FALSE,
        lits |-> {
            <<"U+30E9","U+30F3","U+30C0","U+30E0","U+5316">>,
            <<"r","a","n","d","o","m","i","z">>,
            <<"U+7121","U+4F5C","U+70BA","U+6BD4","U+8F03">>,
            <<"U+7121","U+4F5C","U+70BA","U+5316","U+6BD4","U+8F03">>,
            <<"c","o","n","t","r","o","l","l","e","d"," ","t","r","i","a","l">> }],
       [out |-> "clinical_trial", raw |-> FALSE,
        lits |-> {
            <<"U+81E8","U+5E8A","U+8A66","U+9A13">>,
            <<"c","l","i","n","i","c","a","l"," ","t","r","i","a","l">>,
            <<"U+4ECB","U+5165","U+7814","U+7A76">>,
            <<"i","n","t","e","r","v","e","n","t","i","o","n"," ","s","t","u","d","y">>,
            <<"p","i","l","o","t"," ","s","t","u","d","y">>,
            <<"U+30D1","U+30A4","U+30ED","U+30C3","U+30C8">>,
            <<"f","e","a","s","i","b","i","l","i","t","y">> }],
       [out |-> "observational", raw |-> FALSE,
        lits |-> {
            <<"U+30B3","U+30DB","U+30FC","U+30C8">>,
            <<"c","o","h","o","r","t">>,
            <<"U+89B3","U+5BDF","U+7814","U+7A76">>,
            <<"U+6A2A","U+65AD","U+7814","U+7A76">>,
            <<"c","r","o","s","s","s","e","c","t","i","o","n","a","l">>,
            <<"c","r","o","s","s"," ","s","e","c","t","i","o","n","a","l">>,
            <<"c","r","o","s","s","\t","s","e","c","t","i","o","n","a","l">>,
            <<"c","r","o","s","s","-","s","e","c","t","i","o","n","a","l">>,
            <<"U+524D","U+5411","U+304D">>,
            <<"U+5F8C","U+308D","U+5411","U+304D">>,
            <<"r","e","t","r","o","s","p","e","c","t","i","v">>,
            <<"p","r","o","s","p","e","c","t","i","v">>,
            <<"U+8FFD","U+8DE1","U+8ABF","U+67FB">>,
            <<"U+7E26","U+65AD">>,
            <<"l","o","n","g","i","t","u","d","i","n","a","l">>,
            <<"c","a","s","e","c","o","n","t","r","o","l">>,
            <<"c","a","s","e"," ","c","o","n","t","r","o","l">>,
            <<"c","a","s","e","\t","c","o","n","t","r","o","l">>,
            <<"c","a","s","e","-","c","o","n","t","r","o","l">>,
            <<"U+75C7","U+4F8B","U+5BFE","U+7167">>,
            <<"U+30EC","U+30B8","U+30B9","U+30C8","U+30EA">>,
            <<"r","e","g","i","s","t","r","y">>,
            <<"e","p","i","d","e","m","i","o","l","o","g">>,
            <<"p","r","e","v","a","l","e","n","c","e">>,
            <<"U+6709","U+75C5","U+7387">>,
            <<"i","n","c","i","d","e","n","c","e">>,
            <<"U+767A","U+751F","U+7387">>,
            <<"U+30A2","U+30F3","U+30B1","U+30FC","U+30C8">>,
            <<"s","u","r","v","e","y">>,
            <<"U+8CEA","U+554F","U+7D19">> }],
       [out |-> "case_report", raw |-> FALSE,
        lits |-> {
            <<"U+75C7","U+4F8B","U+5831","U+544A">>,
            <<"c","a","s","e"," ","r","e","p","o","r","t">>,
            <<"U+75C7","U+4F8B","U+691C","U+8A0E">>,
            <<"c","a","s","e"," ","s","e","r","i","e","s">>,
            <<"U+4E00","U+4F8B">>,
            <<"1","U+4F8B">>,
            <<"U+4E00","U+75C7","U+4F8B">>,
            <<"U+7D4C","U+9A13","U+4F8B">> }],
       [out |-> "review", raw |-> FALSE,
        lits |-> {
            <<"U+30EC","U+30D3","U+30E5","U+30FC">>,
            <<"r","e","v","i","e","w">>,
            <<"U+7DCF","U+8AAC">>,
            <<"U+6587","U+732E","U+7684","U+8003","U+5BDF">>,
            <<"U+6587","U+732E","U+691C","U+8A0E">>,
            <<"o","v","e","r","v","i","e","w">>,
            <<"n","a","r","r","a","t","i","v","e">> }],
       [out |-> "observational", raw |-> TRUE,
        lits |-> {
            <<"U+306B","U+3064","U+3044","U+3066","U+306E","U+691C","U+8A0E">>,
            <<"U+306B","U+95A2","U+3059","U+308B","U+691C","U+8A0E">>,
            <<"U+306E","U+691C","U+8A0E">>,
            <<"U+56E0","U+5B50","U+306E","U+691C","U+8A0E">>,
            <<"U+767A","U+751F","U+8981","U+56E0">> }],
       [out |-> "observational", raw |-> TRUE,
        lits |-> {
            <<"U+306B","U+95A2","U+3059","U+308B","U+7814","U+7A76">>,
            <<"U+306B","U+95A2","U+3059","U+308B","U+8ABF","U+67FB">>,
            <<"U+306B","U+3064","U+3044","U+3066","U+306E","U+7814","U+7A76">>,
            <<"U+306E","U+5B9F","U+614B","U+8ABF","U+67FB">>,
            <<"U+306E","U+5B9F","U+614B">> }],
       [out |-> "observational", raw |-> TRUE,
        lits |-> {
            <<"U+89E3","U+6790">>,
            <<"U+5206","U+6790","U+3057","U+305F">>,
            <<"U+3092","U+5206","U+6790">>,
            <<"U+591A","U+5909","U+91CF">>,
            <<"U+56DE","U+5E30">>,
            <<"U+7D71","U+8A08">> }],
       [out |-> "review", raw |-> TRUE,
        lits |-> {
            <<"U+306E","U+73FE","U+72B6","U+3068","U+8AB2","U+984C">>,
            <<"U+73FE","U+72B6","U+3068","U+5C55","U+671B">>,
            <<"U+306E","U+52D5","U+5411">>,
            <<"U+306E","U+6982","U+8981">>,
            <<"U+306E","U+6982","U+8AAC">>,
            <<"U+306E","U+7D39","U+4ECB">>,
            <<"U+306E","U+57FA","U+790E","U+3068","U+5FDC","U+7528">>,
            <<"U+6700","U+65B0","U+306E">>,
            <<"U+7279","U+96C6">> }],
       [out |-> "review", raw |-> TRUE,
        lits |-> {
            <<"U+8003","U+3048","U+65B9","U+3068","U+5B9F","U+969B">>,
            <<"U+306E","U+5B9F","U+969B">> }],
       [out |-> "case_report", raw |-> TRUE,
        lits |-> {
            <<"U+306E","U+5831","U+544A">>,
            <<"U+306B","U+3064","U+3044","U+3066","U+5831","U+544A">>,
            <<"U+3092","U+5831","U+544A">>,
            <<"U+3092","U+7D4C","U+9A13">> }],
       [out |-> "clinical_trial", raw |-> FALSE,
        lits |-> {
            <<"U+52B9","U+679C">>,
            <<"U+6709","U+52B9","U+6027">>,
            <<"e","f","f","i","c","a","c","y">>,
            <<"e","f","f","e","c","t","i","v","e","n","e","s","s">>,
            <<"U+6BD4","U+8F03","U+691C","U+8A0E">>,
            <<"c","o","m","p","a","r","i","s","o","n">>,
            <<"U+6CBB","U+7642","U+6210","U+7E3E">>,
            <<"o","u","t","c","o","m","e">> }],
       [out |-> "observational", raw |-> TRUE,
        lits |-> {
            <<"U+5F71","U+97FF">>,
            <<"U+4E88","U+5F8C">>,
            <<"U+95A2","U+9023">>,
            <<"U+95A2","U+4E0E">>,
            <<"U+76F8","U+95A2">>,
            <<"U+95A2","U+4FC2">> }] >>

\* /rct\b/: "rct" followed by the end of the title or by a non-word character
matchesRctWord(t) ==
    \E i \in 1..(Len(t) - 2) :
        /\ SubSeq(t, i, i + 2) = <<"r","c","t">>
        /\ (i + 2 = Len(t) \/ t[i + 3] \notin WordChars)

\* the alternative with .{0,4}: its two words with at most four characters
\* between them
matchesFactorStudy(t) ==
    \E i \in 1..(Len(t) - 3), gap \in 0..4 :
        /\ i + 3 + gap <= Len(t)
        /\ SubSeq(t, i, i + 1) = <<"U+8981","U+56E0">>
        /\ SubSeq(t, i + 2 + gap, i + 3 + gap) = <<"U+691C","U+8A0E">>

\* the i-th regular expression of the cascade has a match in the title
tierMatches(i, ttl) ==
    LET subject == IF TitlePatterns[i].raw THEN ttl ELSE toLowerCase(ttl)
    IN \/ \E lit \in TitlePatterns[i].lits : SeqIncludes(subject, lit)
       \/ i = 3 /\ matchesRctWord(subject)
       \/ i = 8 /\ matchesFactorStudy(subject)

\* the cascade read from its last test to its first
RECURSIVE cascadeFromLast(_, _)
cascadeFromLast(i, ttl) ==
    IF i > Len(TitlePatterns) THEN "other"
    ELSE LET rest == cascadeFromLast(i + 1, ttl)
         IN IF rest # "other" THEN rest
            ELSE IF tierMatches(i, ttl) THEN TitlePatterns[i].out ELSE "other"

\* lines 937-964 from the i-th test on
RECURSIVE cascade(_, _)
cascade(i, ttl) ==
    IF i > Len(TitlePatterns) THEN "other"
    ELSE IF tierMatches(i, ttl) THEN TitlePatterns[i].out
    ELSE cascade(i + 1, ttl)

\* title || '' is the title, '' for a missing one
classifyByTitle(ttl) == cascade(1, ttl)

NoAdded == [piece |-> <<>>, title |-> <<>>, level |-> "none", front |-> FALSE]

CorsIdle ==
    /\ origin = <<>>
    /\ allowOrigin = <<>>

ClassIdle ==
    /\ clsTitle = <<>>
    /\ clsLevel = "none"
    /\ added = NoAdded

PureIdle == ClassIdle /\ CorsIdle /\ OrderIdle

\* pieces of titles
TitlePieces ==
    { <<"O","u","t","c","o","m","e"," ">>,
      <<"s","c","o","p","i","n","g"," ">>,
      <<"r","e","v","i","e","w">>,
      <<"R","C","T">>,
      <<"s">>,
      <<"G","u","i","d","e","l","i","n","e"," ">>,
      <<"U+8981","U+56E0">>,
      <<"U+306E","U+691C","U+8A0E">>,
      <<"U+5F71","U+97FF">>,
      <<"c","o","h","o","r","t"," ">> }

\* the most pieces in a title before one is added
MaxPieces == 2

\* the call
Classify ==
    /\ clsLevel = "none"
    /\ clsLevel' = classifyByTitle(clsTitle)
    /\ UNCHANGED <<clsTitle, added, outsideClass>>

\* a piece is put in front of a classified title or after it
AddPiece(piece, front) ==
    /\ clsLevel # "none"
    /\ added = NoAdded
    /\ added' = [piece |-> piece, title |-> clsTitle, level |-> clsLevel, front |-> front]
    /\ clsTitle' = IF front THEN piece \o clsTitle ELSE clsTitle \o piece
    /\ clsLevel' = "none"
    /\ UNCHANGED outsideClass

InitClass ==
    /\ SearchIdle
    /\ MergeIdle
    /\ LimitIdle
    /\ GroupIdle
    /\ CorsIdle
    /\ OrderIdle
    /\ clsTitle \in {Flatten(ps) : ps \in SeqsUpTo(TitlePieces, MaxPieces)}
    /\ clsLevel = "none"
    /\ added = NoAdded

NextClass ==
    \/ Classify
    \/ \E piece \in TitlePieces, front \in BOOLEAN : AddPiece(piece, front)

SpecClass == InitClass /\ [][NextClass]_vars

----------------------------------------------------------------------------
(* searchPatientVoice, called by handleSearch for patientVoice=true with   *)
(* queryParts and translatedParts.                                         *)

\* the disjunction of the first four QUAL_TERMS, quoted, after the query
qualEn == <<"AND", "(\"qualitative research\" OR ...)">>

\* QUAL_TERMS_JA[0]
qualJaFirst == "kanjataiken"

\* enParts of lines 1201-1219
VoiceEnParts(parts, translated, autoTranslated) ==
    IF ~isJapanese(Join(parts)) THEN parts
    ELSE IF translated # <<>> THEN translated
    ELSE IF autoTranslated # <<>> THEN autoTranslated
    ELSE parts

\* the third branch (lines 1233-1236) left out
VoiceSearchesTwoOrFour(parts, translated, autoTranslated) ==
    LET enParts == VoiceEnParts(parts, translated, autoTranslated)
    IN << Task("pvpubmed", PartsArg(enParts)),
          Task("epmc", TextArg(Join(enParts) \o qualEn)) >>
       \o (IF isJapanese(Join(parts))
           THEN << Task("jstage", TextArg(Join(parts) \o <<qualJaFirst>>)),
                   Task("cinii", TextArg(Join(parts) \o <<qualJaFirst>>)) >>
           ELSE <<>>)

\* lines 1221-1236: the tasks of searches, in order
VoiceSearches(parts, translated, autoTranslated) ==
    LET enParts == VoiceEnParts(parts, translated, autoTranslated)
    IN << Task("pvpubmed", PartsArg(enParts)),
          Task("epmc", TextArg(Join(enParts) \o qualEn)) >>
       \o (IF isJapanese(Join(parts))
           THEN << Task("jstage", TextArg(Join(parts) \o <<qualJaFirst>>)),
                   Task("cinii", TextArg(Join(parts) \o <<qualJaFirst>>)) >>
           ELSE <<>>)
       \o (IF translated # <<>> /\ ~isJapanese(Join(parts))
           THEN << Task("jstage", TextArg(Join(translated) \o <<qualJaFirst>>)) >>
           ELSE <<>>)

\* retmax=20 and pageSize=20: the most records of one call
VoicePage == 20

\* .slice(0, 30)
VoiceCap == 30

VoiceIds ==
    << "pv-01", "pv-02", "pv-03", "pv-04", "pv-05", "pv-06", "pv-07",
       "pv-08", "pv-09", "pv-10", "pv-11", "pv-12", "pv-13", "pv-14",
       "pv-15", "pv-16", "pv-17", "pv-18", "pv-19", "pv-20", "pv-21",
       "pv-22", "pv-23", "pv-24", "pv-25", "pv-26", "pv-27", "pv-28",
       "pv-29", "pv-30", "pv-31", "pv-32", "pv-33", "pv-34", "pv-35",
       "pv-36", "pv-37", "pv-38", "pv-39", "pv-40" >>

\* a full page of records of a source, with ids from VoiceIds after `from`
VoiceFullPage(source, from) ==
    [i \in 1..VoicePage |->
        Rec(VoiceIds[from + i], <<"Q","o","L">>, <<>>, "", 2020, <<>>, "other",
            <<>>, <<>>, source, -1, "")]

\* what a task of the patient-voice search returns when its source answers
\* "ok" (a record or two) or "full" (a full page)
VoiceValueOf(task) ==
    IF task.state # "fulfilled" THEN <<>>
    ELSE IF task.up = "full"
    THEN (IF task.label = "pvpubmed" THEN VoiceFullPage("PubMed", 0)
          ELSE VoiceFullPage("Europe PMC", VoicePage))
    ELSE CASE task.label = "pvpubmed" -> <<RecPubMed>>
           [] task.label = "epmc"     -> <<RecEPMC, RecOpenAlex>>
           [] task.label = "jstage"   -> <<RecJStage>>
           [] OTHER                   -> <<RecCiNii>>

VoiceOutcomes(label) ==
    IF label \in {"pvpubmed", "epmc"} THEN {"ok", "down", "full"} ELSE {"ok", "down"}

RECURSIVE VoiceCollected(_)
VoiceCollected(tasks) ==
    IF tasks = <<>> THEN <<>>
    ELSE VoiceValueOf(Head(tasks)) \o VoiceCollected(Tail(tasks))

\* { ...r, isPatientVoice: true }
TagVoice(r) == ("isPatientVoice" :> TRUE) @@ r

\* lines 1244-1247
VoiceResults(tasks) ==
    LET results == deduplicateAndMerge(VoiceCollected(tasks)).results
        tagged == [i \in 1..Len(results) |-> TagVoice(results[i])]
    IN SubSeq(tagged, 1, IF Len(tagged) < VoiceCap THEN Len(tagged) ELSE VoiceCap)

\* lines 1193-1236 up to the first await: the translations of a Japanese
\* query that has no translated parts, or else the searches
VoiceStart ==
    /\ pc = "voice"
    /\ IF isJapanese(Join(queryParts)) /\ translatedParts = <<>>
       THEN /\ translations' = [i \in 1..Len(queryParts) |-> Pending]
            /\ pc' = "voiceTranslating"
            /\ UNCHANGED searches
       ELSE /\ searches' = VoiceSearches(queryParts, translatedParts, <<>>)
            /\ pc' = "voiceSearching"
            /\ UNCHANGED translations
    /\ UNCHANGED <<req, queryParts, expandedParts, translatedFields, translatedParts,
                   response, outsideSearch>>

\* one translate(q, 'ja', 'en') of line 1209 settles
VoiceTranslateSettle(i, upstream) ==
    /\ pc = "voiceTranslating"
    /\ translations[i].state = "pending"
    /\ translations' = [translations EXCEPT ![i] =
           Fulfilled(translate(queryParts[i], "ja", "en", upstream))]
    /\ UNCHANGED <<pc, req, queryParts, expandedParts, translatedFields, translatedParts,
                   searches, response, outsideSearch>>

\* lines 1211-1236 after the translations have settled
VoiceDispatch ==
    /\ pc = "voiceTranslating"
    /\ AllSettled(translations)
    /\ searches' = VoiceSearches(queryParts, translatedParts,
                                 FilterBoolean(SettledValues(translations)))
    /\ pc' = "voiceSearching"
    /\ UNCHANGED <<req, queryParts, expandedParts, translatedFields, translations,
                   translatedParts, response, outsideSearch>>

\* one of the searches settles
VoiceSettle(i, up) ==
    /\ pc = "voiceSearching"
    /\ searches[i].state = "pending"
    /\ up \in VoiceOutcomes(searches[i].label)
    /\ searches' = [searches EXCEPT ![i].up = up,
                                    ![i].state = IF up = "down" THEN "rejected"
                                                 ELSE "fulfilled"]
    /\ UNCHANGED <<pc, req, queryParts, expandedParts, translatedFields, translations,
                   translatedParts, response, outsideSearch>>

\* lines 1238-1247 and the response of handleSearch with patientVoice
VoiceReturn ==
    /\ pc = "voiceSearching"
    /\ AllSettled(searches)
    /\ response' = [status |-> 200, patientVoice |-> VoiceResults(searches)]
    /\ pc' = "voiceDone"
    /\ UNCHANGED <<req, queryParts, expandedParts, translatedFields, translations,
                   translatedParts, searches, outsideSearch>>

VoiceQueries ==
    { << <<"knee">> >>, << <<"knee">>, <<"pain">> >>, << <<"hiza">> >>,
      << <<"hiza">>, <<"itami">> >> }

\* translatedParts as handleSearch leaves it for these parts: null, or
\* what is left of the translations of the parts
VoiceTranslated(parts) ==
    LET tgt == IF isJapanese(Join(parts)) THEN "en" ELSE "ja"
    IN { FilterBoolean([i \in 1..Len(parts) |-> translate(parts[i], "", tgt, ups[i])]) :
            ups \in [1..Len(parts) -> {"ok", "error"}] }

InitVoice ==
    /\ MergeIdle
    /\ LimitIdle
    /\ GroupIdle
    /\ PureIdle
    /\ pc = "voice"
    /\ req = [q |-> <<>>, disease |-> <<>>, treatment |-> <<>>, topic |-> <<>>,
              multilingual |-> FALSE]
    /\ queryParts \in VoiceQueries
    /\ expandedParts = <<>>
    /\ translatedFields = NoFields
    /\ translations = <<>>
    /\ translatedParts \in VoiceTranslated(queryParts)
    /\ searches = <<>>
    /\ response = NoResponse

NextVoice ==
    \/ VoiceStart
    \/ \E i \in 1..Len(translations), up \in {"ok", "error"} : VoiceTranslateSettle(i, up)
    \/ VoiceDispatch
    \/ \E i \in 1..Len(searches), up \in {"ok", "down", "full"} : VoiceSettle(i, up)
    \/ VoiceReturn

SpecVoice == InitVoice /\ [][NextVoice]_vars

----------------------------------------------------------------------------
(* corsHeaders.  An origin is a sequence of pieces of text.                *)

ALLOWED_ORIGINS ==
    << <<"https://mizuking796.github.io">>, <<"http://localhost">>,
       <<"http://127.0.0.1">> >>

\* origin.startsWith(o)
startsWith(text, prefix) ==
    Len(prefix) <= Len(text) /\ SubSeq(text, 1, Len(prefix)) = prefix

\* line 25
isAllowed(o) ==
    o = <<"null">> \/ \E i \in 1..Len(ALLOWED_ORIGINS) : startsWith(o, ALLOWED_ORIGINS[i])

\* line 27: the value of Access-Control-Allow-Origin
corsHeaders(o) ==
    IF isAllowed(o) THEN (IF o = <<"null">> THEN <<"*">> ELSE o)
    ELSE ALLOWED_ORIGINS[1]

\* what may follow the scheme and host in an Origin header
OriginTails == {":8080", ".evil.example", "-dev.example", ":80"}

\* the most pieces after the host
MaxTail == 2

Origins ==
    {<<>>, <<"null">>}
    \cup { host \o tail : host \in Range(ALLOWED_ORIGINS) \cup {<<"https://evil.example">>},
                          tail \in SeqsUpTo(OriginTails, MaxTail) }

\* line 62: const cors = corsHeaders(request)
Cors ==
    /\ allowOrigin = <<>>
    /\ allowOrigin' = corsHeaders(origin)
    /\ UNCHANGED <<origin, outsideCors>>

InitCors ==
    /\ SearchIdle
    /\ MergeIdle
    /\ LimitIdle
    /\ GroupIdle
    /\ ClassIdle
    /\ OrderIdle
    /\ origin \in Origins
    /\ allowOrigin = <<>>

NextCors == Cors

SpecCors == InitCors /\ [][NextCors]_vars

----------------------------------------------------------------------------
(* SpecSearch: one request through handleSearch, every order of settling.  *)

Request(q, disease, treatment, topic, multilingual) ==
    [q |-> q, disease |-> disease, treatment |-> treatment, topic |-> topic,
     multilingual |-> multilingual]

SearchRequests ==
    { Request(<<"knee">>, <<>>, <<>>, <<>>, FALSE),
      Request(<<"hiza">>, <<>>, <<>>, <<>>, FALSE),
      Request(<<>>, <<"knee">>, <<>>, <<>>, TRUE) }

InitSearch ==
    /\ MergeIdle
    /\ LimitIdle
    /\ GroupIdle
    /\ PureIdle
    /\ pc = "idle"
    /\ req \in SearchRequests
    /\ queryParts = <<>>
    /\ expandedParts = <<>>
    /\ translatedFields = NoFields
    /\ translations = <<>>
    /\ translatedParts = <<>>
    /\ searches = <<>>
    /\ response = NoResponse

NextSearch ==
    \/ Receive
    \/ \E i \in 1..Len(translations), up \in {"ok", "error"} : TranslateSettle(i, up)
    \/ Plan
    \/ \E i \in 1..Len(searches), up \in Upstream : SearchSettle(i, up)
    \/ Collect

SpecSearch == InitSearch /\ [][NextSearch]_vars

\* SpecFanout: the same steps for the requests without the multilingual
\* flag, whose plans have four, six or eight tasks
FanoutRequests ==
    { Request(<<"knee">>, <<>>, <<>>, <<>>, FALSE),
      Request(<<"hiza">>, <<>>, <<>>, <<>>, FALSE),
      Request(<<>>, <<"hiza">>, <<"knee">>, <<>>, FALSE),
      Request(<<>>, <<"O", "A">>, <<>>, <<>>, FALSE) }

InitFanout ==
    /\ MergeIdle
    /\ LimitIdle
    /\ GroupIdle
    /\ PureIdle
    /\ pc = "idle"
    /\ req \in FanoutRequests
    /\ queryParts = <<>>
    /\ expandedParts = <<>>
    /\ translatedFields = NoFields
    /\ translations = <<>>
    /\ translatedParts = <<>>
    /\ searches = <<>>
    /\ response = NoResponse

SpecFanout == InitFanout /\ [][NextSearch]_vars

\* SpecOrder: a request with the default plan of six tasks and a Japanese
\* one whose translation fails (four tasks), the order in which the tasks
\* settle written down; a source answers or is down
OrderRequests ==
    { Request(<<"knee">>, <<>>, <<>>, <<>>, FALSE),
      Request(<<"hiza">>, <<>>, <<>>, <<>>, FALSE) }

InitOrder ==
    /\ MergeIdle
    /\ LimitIdle
    /\ GroupIdle
    /\ PureIdle
    /\ pc = "idle"
    /\ req \in OrderRequests
    /\ queryParts = <<>>
    /\ expandedParts = <<>>
    /\ translatedFields = NoFields
    /\ translations = <<>>
    /\ translatedParts = <<>>
    /\ searches = <<>>
    /\ response = NoResponse

NextOrder ==
    \/ Receive
    \/ \E i \in 1..Len(translations) : TranslateSettle(i, "error")
    \/ Plan
    \/ \E i \in 1..Len(searches), up \in {"ok", "down"} : SettleRecorded(i, up)
    \/ Collect

SpecOrder == InitOrder /\ [][NextOrder]_vars

----------------------------------------------------------------------------
(* SpecPlan: every request with up to MaxQueryWords words in q, up to the  *)
(* dispatch of the searches.                                               *)

MaxQueryWords == 2

QueryWords == {"knee", "pain", "hiza"}

FieldValues == {<<>>, <<"knee">>, <<"hiza">>, <<"knee", "pain">>}

PlanRequests ==
    [q : SeqsUpTo(QueryWords, MaxQueryWords), disease : FieldValues,
     treatment : FieldValues, topic : FieldValues, multilingual : BOOLEAN]

InitPlan ==
    /\ MergeIdle
    /\ LimitIdle
    /\ GroupIdle
    /\ PureIdle
    /\ pc = "idle"
    /\ req \in PlanRequests
    /\ queryParts = <<>>
    /\ expandedParts = <<>>
    /\ translatedFields = NoFields
    /\ translations = <<>>
    /\ translatedParts = <<>>
    /\ searches = <<>>
    /\ response = NoResponse

NextPlan ==
    \/ Receive
    \/ \E i \in 1..Len(translations), up \in {"ok", "error"} : TranslateSettle(i, up)
    \/ Plan

SpecPlan == InitPlan /\ [][NextPlan]_vars

----------------------------------------------------------------------------
(* The reconciler as a state machine: an input list, then the call.        *)

InitMerge ==
    /\ allResults \in SeqsUpTo(RecordPool, MaxInput)
    /\ merged = [results |-> <<>>, sourceCounts |-> [l \in SourceLabels |-> 0]]
    /\ mpc = "input"
    /\ SearchIdle
    /\ LimitIdle
    /\ GroupIdle
    /\ PureIdle

Reconcile ==
    /\ mpc = "input"
    /\ merged' = deduplicateAndMerge(allResults)
    /\ mpc' = "done"
    /\ UNCHANGED allResults
    /\ UNCHANGED outsideMerge

NextMerge == Reconcile

SpecMerge == InitMerge /\ [][NextMerge]_vars

\* SpecDoi: the reconciler on lists of records of one article, which three
\* sources return with the same DOI, and of another article without DOI
DoiPubMed ==
    Rec("pm-4", TitleOther, <<"Sato">>, "Lancet", 2020,
        <<"Randomized Controlled Trial">>, "rct", DoiAbc, PubMedUrl("4"),
        "PubMed", -1, "")
DoiEPMC ==
    Rec("ep-4", TitleOther, <<"Sato">>, "Lancet", 2020, <<"Review">>, "review",
        DoiAbc, DoiUrl(DoiAbc), "Europe PMC", 3, "")
DoiOpenAlex ==
    Rec("oa-W4", TitleOther, <<"Sato">>, "Lancet", 2020, <<"review">>, "sr_ma",
        DoiAbc, DoiUrl(DoiAbc), "OpenAlex", 7, "en")

DoiPool == {DoiPubMed, DoiEPMC, DoiOpenAlex, RecCiNii}

InitDoi ==
    /\ allResults \in SeqsUpTo(DoiPool, MaxInput)
    /\ merged = [results |-> <<>>, sourceCounts |-> [l \in SourceLabels |-> 0]]
    /\ mpc = "input"
    /\ SearchIdle
    /\ LimitIdle
    /\ GroupIdle
    /\ PureIdle

SpecDoi == InitDoi /\ [][NextMerge]_vars

----------------------------------------------------------------------------
(* SpecLimit: requests of two client IPs through the rate limiter.         *)

InitLimit ==
    /\ MergeIdle
    /\ SearchIdle
    /\ LimitIdle
    /\ GroupIdle
    /\ PureIdle

NextLimit ==
    \/ Tick
    \/ \E ip \in ClientIPs : FetchOptions(ip)
    \/ \E ip \in ClientIPs : Fetch(ip)
    \/ HandlerReturns

SpecLimit == InitLimit /\ [][NextLimit]_vars

\* SpecAlone: the same requests, each also given to a worker that serves
\* its IP alone
NextAlone ==
    \/ Tick
    \/ \E ip \in ClientIPs : FetchOptions(ip)
    \/ \E ip \in ClientIPs : FetchBoth(ip)
    \/ HandlerReturns

SpecAlone == InitLimit /\ [][NextAlone]_vars

----------------------------------------------------------------------------
(* SpecGroup: groupByEvidence over lists of reconciled records.            *)

InitGroup ==
    /\ allResults = <<>>
    /\ merged \in {[results |-> list, sourceCounts |-> [l \in SourceLabels |-> 0]] :
                       list \in SeqsUpTo(GroupPool, MaxGroup)}
    /\ mpc = "done"
    /\ SearchIdle
    /\ LimitIdle
    /\ GroupIdle
    /\ PureIdle

NextGroup == Group

SpecGroup == InitGroup /\ [][NextGroup]_vars

----------------------------------------------------------------------------
(* SpecSyn: expandSynonyms over every term of the table as written and in  *)
(* lower case, and over lists of terms in several spellings.               *)

SynPool ==
    { <<"P","T">>, <<"p","t">>, <<"P","t">>, <<"O","A">>,
      <<"S","t","r","o","k","e">>, <<"s","t","r","o","k","e">>,
      <<"U+8133","U+5352","U+4E2D">>, <<"k","n","e","e">> }

\* the longest list of terms
MaxTerms == 2

SynInputs ==
    {<<t>> : t \in TableTerms} \cup {<<toLowerCase(t)>> : t \in TableTerms}
        \cup SeqsUpTo(SynPool, MaxTerms)

InitSyn ==
    /\ MergeIdle
    /\ LimitIdle
    /\ GroupIdle
    /\ PureIdle
    /\ pc = "expand"
    /\ req = [q |-> <<>>, disease |-> <<>>, treatment |-> <<>>, topic |-> <<>>,
              multilingual |-> FALSE]
    /\ queryParts \in SynInputs
    /\ expandedParts = <<>>
    /\ translatedFields = NoFields
    /\ translations = <<>>
    /\ translatedParts = <<>>
    /\ searches = <<>>
    /\ response = NoResponse

NextSyn == Expand

SpecSyn == InitSyn /\ [][NextSyn]_vars

----------------------------------------------------------------------------
(* SpecLocal: the local searches over lists of terms.                      *)

LocalPool ==
    { <<"knee">>, <<"pain">>, <<"knee", "pain">>, <<"O", "A">>, <<"stroke">>,
      <<"hiza">> }

\* the longest list of terms handed to the local searches
MaxLocalTerms == 2

InitLocal ==
    /\ MergeIdle
    /\ LimitIdle
    /\ GroupIdle
    /\ PureIdle
    /\ pc = "local"
    /\ req = [q |-> <<>>, disease |-> <<>>, treatment |-> <<>>, topic |-> <<>>,
              multilingual |-> FALSE]
    /\ queryParts = <<>>
    /\ expandedParts \in SeqsUpTo(LocalPool, MaxLocalTerms)
    /\ translatedFields = NoFields
    /\ translations = <<>>
    /\ translatedParts \in {<<>>, << <<"knee">> >>, << <<"pain">> >>}
    /\ searches = <<>>
    /\ response = NoResponse

NextLocal == LocalSearch

SpecLocal == InitLocal /\ [][NextLocal]_vars

\* SpecCase: query parts in several spellings through expandSynonyms and
\* the local searches, without translation
CasePool ==
    { <<"S","t","r","o","k","e">>, <<"s","t","r","o","k","e">>,
      <<"S","T","R","O","K","E">>, <<"P","T">>, <<"p","t">>, <<"P","t">>,
      <<"g","a","i","t">>, <<"G","a","i","t">> }

\* the longest list of query parts
MaxCaseParts == 2

InitCase ==
    /\ MergeIdle
    /\ LimitIdle
    /\ GroupIdle
    /\ PureIdle
    /\ pc = "expand"
    /\ req = [q |-> <<>>, disease |-> <<>>, treatment |-> <<>>, topic |-> <<>>,
              multilingual |-> FALSE]
    /\ queryParts \in SeqsUpTo(CasePool, MaxCaseParts) \ {<<>>}
    /\ expandedParts = <<>>
    /\ translatedFields = NoFields
    /\ translations = <<>>
    /\ translatedParts = <<>>
    /\ searches = <<>>
    /\ response = NoResponse

NextCase == Expand \/ LocalAfterExpand

SpecCase == InitCase /\ [][NextCase]_vars

----------------------------------------------------------------------------
(* Properties of handleSearch (SpecSearch, SpecPlan).                      *)

TaskIndexes == 1..Len(searches)

LabelsRejected == {searches[i].label : i \in {k \in TaskIndexes : searches[k].state = "rejected"}}

\* the records of the response, bucket after bucket
ResponseRecords ==
    Flatten([i \in 1..Len(EVIDENCE_ORDER) |-> response.results[EVIDENCE_ORDER[i]]])

\* the records returned by the tasks that fulfilled
FulfilledRecords ==
    UNION {Range(ValueOf(searches[i])) :
              i \in {k \in TaskIndexes : searches[k].state = "fulfilled"}}

\* C1: whatever tasks reject, the response of a search with at least one
\* query part has status 200, totalCount is the number of records the
\* outputs of the fulfilled tasks reconcile to (one per dedup key), and
\* sources.errors has a message for exactly the labels with a rejected task.
C1_PartialFailureIsolated ==
    (pc = "done" /\ queryParts # <<>>) =>
        /\ response.status = 200
        /\ response.totalCount = Cardinality({dedupKey(r) : r \in FulfilledRecords})
        /\ response.totalCount = Len(ResponseRecords)
        /\ DOMAIN response.errors = LabelsRejected
        /\ \A l \in LabelsRejected : response.errors[l] # <<>>

\* a response after some tasks rejected and others fulfilled, one label
\* having both
C1_Witness ==
    /\ pc = "done"
    /\ response.status = 200
    /\ response.totalCount > 0
    /\ \E i, j \in TaskIndexes :
          /\ searches[i].label = searches[j].label
          /\ searches[i].state = "rejected"
          /\ searches[j].state = "fulfilled"
    /\ \E l \in SourceLabels : l \notin LabelsRejected

\* C2: the fan-out is settle-all.  A step never changes a task that has
\* settled, settles at most one task, and the response is produced only
\* in a state where no dispatched task is pending.
C2_SettleAll ==
    [][ /\ \A i \in TaskIndexes :
              searches[i].state # "pending" => searches'[i] = searches[i]
        /\ Cardinality({i \in TaskIndexes : searches'[i] # searches[i]}) <= 1
        /\ (pc = "searching" /\ pc' = "done") =>
              /\ \A i \in TaskIndexes : searches[i].state # "pending"
              /\ searches' = searches
        /\ (response' # response) => (pc' = "done" /\ pc # "done") ]_vars

\* a task has rejected, a sibling is still pending and another has
\* fulfilled; there is no response yet
C2_Witness ==
    /\ pc = "searching"
    /\ response = NoResponse
    /\ \E i, j, k \in TaskIndexes :
          /\ searches[i].state = "rejected"
          /\ searches[j].state = "pending"
          /\ searches[k].state = "fulfilled"
          /\ i < k

CallsOf(label) == {i \in TaskIndexes : searches[i].label = label}

\* the argument of task i is the original query in the form its adapter takes
GetsOriginal(i) ==
    searches[i].arg = IF searches[i].label = "pubmed" THEN PartsArg(queryParts)
                      ELSE TextArg(Join(queryParts))

\* the argument of task i is the translated query
GetsTranslated(i) ==
    searches[i].arg = IF searches[i].label = "pubmed" THEN PartsArg(translatedParts)
                      ELSE TextArg(Join(translatedParts))

Dispatched == pc = "searching" /\ \A i \in TaskIndexes : searches[i].state = "pending"

\* six tasks: each source once, with the original query
SixOriginal ==
    /\ Len(searches) = 6
    /\ \A l \in SourceLabels :
          /\ Cardinality(CallsOf(l)) = 1
          /\ \A i \in CallsOf(l) : GetsOriginal(i)

C4_TwelveBothLanguages ==
    (Dispatched /\ req.multilingual /\ translatedParts # <<>>) =>
        /\ Len(searches) = 12
        /\ \A l \in SourceLabels :
              /\ Cardinality(CallsOf(l)) = 2
              /\ Cardinality({i \in CallsOf(l) : GetsOriginal(i)}) = 1
              /\ Cardinality({i \in CallsOf(l) : GetsTranslated(i)}) = 1

\* C5: a Japanese query with multilingual=false and a translated part is
\* dispatched as eight tasks: PubMed with the translated parts, Semantic
\* Scholar with the translated text, J-STAGE and CiNii with the original
\* text, OpenAlex and Europe PMC with the original and with the translated
\* text.
C5_EightJapanesePlan ==
    (Dispatched /\ isJaQuery /\ ~req.multilingual /\ translatedParts # <<>>) =>
        /\ Len(searches) = 8
        /\ \A l \in {"pubmed", "s2"} :
              /\ Cardinality(CallsOf(l)) = 1
              /\ \A i \in CallsOf(l) : GetsTranslated(i)
        /\ \A l \in {"jstage", "cinii"} :
              /\ Cardinality(CallsOf(l)) = 1
              /\ \A i \in CallsOf(l) : GetsOriginal(i)
        /\ \A l \in {"openalex", "epmc"} :
              /\ Cardinality(CallsOf(l)) = 2
              /\ Cardinality({i \in CallsOf(l) : GetsOriginal(i)}) = 1
              /\ Cardinality({i \in CallsOf(l) : GetsTranslated(i)}) = 1

\* a Japanese request of two parts, one of them translated, has been
\* dispatched without the multilingual flag
C5_Witness ==
    /\ Dispatched
    /\ isJaQuery /\ ~req.multilingual
    /\ Len(queryParts) = 2 /\ Len(translatedParts) = 1
    /\ Len(searches) = 8

----------------------------------------------------------------------------
(* Properties of the reconciler (SpecMerge).                               *)

\* the dedup keys of a list of records
KeysOf(records) == [i \in 1..Len(records) |-> dedupKey(records[i])]

\* the input records that share a dedup key
Contributors(key) == {i \in 1..Len(allResults) : dedupKey(allResults[i]) = key}

FirstContributor(key) ==
    CHOOSE i \in Contributors(key) : \A k \in Contributors(key) : i <= k

ResultIndexes == 1..Len(merged.results)

RECURSIVE SumOver(_, _)
SumOver(f, S) ==
    IF S = {} THEN 0
    ELSE LET x == CHOOSE y \in S : TRUE IN f[x] + SumOver(f, S \ {x})

\* one result per dedup key of the input, none without an input
OneResultPerKey ==
    /\ \A i \in 1..Len(allResults) :
          \E j \in ResultIndexes : dedupKey(merged.results[j]) = dedupKey(allResults[i])
    /\ \A j, k \in ResultIndexes :
          dedupKey(merged.results[j]) = dedupKey(merged.results[k]) => j = k
    /\ \A j \in ResultIndexes : Contributors(dedupKey(merged.results[j])) # {}

\* C6: after deduplicateAndMerge, the evidence level of every result is one
\* of the eight levels and its rank is the minimum rank of the input records
\* that share the result's dedup key, whatever the order of the input.
C6_MinEvidenceRank ==
    mpc = "done" =>
        /\ OneResultPerKey
        /\ \A j \in ResultIndexes :
              LET r == merged.results[j]
                  from == Contributors(dedupKey(r))
              IN /\ r.evidenceLevel \in EvidenceLevels
                 /\ \E i \in from :
                       EV_RANK[allResults[i].evidenceLevel] = EV_RANK[r.evidenceLevel]
                 /\ \A i \in from :
                       EV_RANK[r.evidenceLevel] <= EV_RANK[allResults[i].evidenceLevel]

\* a later record of better rank replaced the level of the first one
C6_Witness ==
    /\ mpc = "done"
    /\ \E j \in ResultIndexes :
          LET r == merged.results[j]
              first == allResults[FirstContributor(dedupKey(r))]
          IN /\ Cardinality(Contributors(dedupKey(r))) >= 2
             /\ EV_RANK[r.evidenceLevel] < EV_RANK[first.evidenceLevel]

NoDuplicates(s) == \A i, k \in 1..Len(s) : s[i] = s[k] => i = k

\* C7 as stated: source is in foundIn and the length of foundIn is the
\* number of input records with the result's dedup key.
C7_FoundInCountsRecords ==
    mpc = "done" =>
        \A j \in ResultIndexes :
            LET r == merged.results[j]
            IN /\ Includes(r.foundIn, r.source)
               /\ Len(r.foundIn) = Cardinality(Contributors(dedupKey(r)))

\* C7 amended: source is in foundIn, foundIn has no repeated name, and its
\* length is the number of distinct sources among the input records with
\* the result's dedup key.
C7_FoundInCountsSources ==
    mpc = "done" =>
        \A j \in ResultIndexes :
            LET r == merged.results[j]
                from == Contributors(dedupKey(r))
            IN /\ Includes(r.foundIn, r.source)
               /\ NoDuplicates(r.foundIn)
               /\ Range(r.foundIn) = {allResults[i].source : i \in from}
               /\ Len(r.foundIn) = Cardinality({allResults[i].source : i \in from})

\* three colliding records, two of them from one source
C7_Witness ==
    /\ mpc = "done"
    /\ \E j \in ResultIndexes :
          LET r == merged.results[j]
          IN /\ Cardinality(Contributors(dedupKey(r))) = 3
             /\ Len(r.foundIn) = 2

\* C8: sourceCounts has the six keys, sums to the number of results, and
\* counts every result once, for the source of the first input record
\* with its dedup key.
C8_SourceCountsFirstSeen ==
    mpc = "done" =>
        LET inKeys == KeysOf(allResults)
            keys   == KeysOf(merged.results)
            first  == [j \in ResultIndexes |->
                          CHOOSE i \in 1..Len(inKeys) :
                              /\ inKeys[i] = keys[j]
                              /\ \A k \in 1..Len(inKeys) : inKeys[k] = keys[j] => i <= k]
            credit == [j \in ResultIndexes |-> srcKey(allResults[first[j]].source)]
        IN /\ DOMAIN merged.sourceCounts = SourceLabels
           /\ SumOver(merged.sourceCounts, SourceLabels) = Len(merged.results)
           /\ \A l \in SourceLabels :
                 merged.sourceCounts[l] =
                     Cardinality({j \in ResultIndexes : credit[j] = l})

\* a later record of another source collided and got no credit
C8_Witness ==
    /\ mpc = "done"
    /\ \E j \in ResultIndexes :
          LET from == Contributors(dedupKey(merged.results[j]))
          IN \E i \in from :
                /\ allResults[i].source # allResults[FirstContributor(
                       dedupKey(merged.results[j]))].source
                /\ merged.sourceCounts[srcKey(allResults[i].source)] = 0

\* C9 as stated: equal lowercased DOIs give equal keys, and without a DOI
\* equal normalized titles and years give equal keys, for every title.
C9_EqualKeysAnyTitle ==
    mpc = "done" =>
        \A a, b \in Range(allResults) :
            /\ (a.doi # <<>> /\ b.doi # <<>> /\ toLowerCase(a.doi) = toLowerCase(b.doi))
                   => dedupKey(a) = dedupKey(b)
            /\ (a.doi = <<>> /\ b.doi = <<>> /\ a.year = b.year
                /\ normalizeTitle(a.title) = normalizeTitle(b.title))
                   => dedupKey(a) = dedupKey(b)

\* C9 amended: the title rule holds for normalized titles longer than
\* TitleKeyMin characters; two records without DOI whose normalized titles
\* are no longer than that have equal keys exactly when their ids are equal.
C9_EqualKeysLongTitle ==
    mpc = "done" =>
        \A a, b \in Range(allResults) :
            /\ (a.doi # <<>> /\ b.doi # <<>> /\ toLowerCase(a.doi) = toLowerCase(b.doi))
                   => dedupKey(a) = dedupKey(b)
            /\ (a.doi = <<>> /\ b.doi = <<>> /\ a.year = b.year
                /\ normalizeTitle(a.title) = normalizeTitle(b.title)
                /\ Len(normalizeTitle(a.title)) > TitleKeyMin)
                   => dedupKey(a) = dedupKey(b)
            /\ (a.doi = <<>> /\ b.doi = <<>>
                /\ Len(normalizeTitle(a.title)) <= TitleKeyMin
                /\ Len(normalizeTitle(b.title)) <= TitleKeyMin)
                   => (dedupKey(a) = dedupKey(b) <=> a.id = b.id)

\* two records without DOI whose titles differ before normalizing and are
\* equal and longer than TitleKeyMin after it were merged into one result
C9_Witness ==
    /\ mpc = "done"
    /\ \E a, b \in Range(allResults) :
          /\ a.doi = <<>> /\ b.doi = <<>> /\ a.title # b.title /\ a.id # b.id
          /\ a.year = b.year
          /\ normalizeTitle(a.title) = normalizeTitle(b.title)
          /\ Len(normalizeTitle(a.title)) > TitleKeyMin
          /\ \E j \in ResultIndexes :
                /\ dedupKey(merged.results[j]) = dedupKey(a)
                /\ Cardinality(Contributors(dedupKey(a))) >= 2

Permute(s, f) == [i \in 1..Len(s) |-> s[f[i]]]

\* the index of the result of out that has the key
ResultFor(okeys, key) == CHOOSE j \in 1..Len(okeys) : okeys[j] = key

\* C10 as stated: reconciling any permutation of the input gives, per dedup
\* key, the same title, id, url, journal, year, authors, doi, language,
\* pubTypes (as a set), citations and evidenceLevel.
C10_AllFieldsCommute ==
    mpc = "done" =>
        LET keys == KeysOf(merged.results)
        IN \A f \in Permutations(1..Len(allResults)) :
              LET out == deduplicateAndMerge(Permute(allResults, f))
                  okeys == KeysOf(out.results)
              IN /\ Range(okeys) = Range(keys)
                 /\ \A j \in ResultIndexes :
                       LET r == merged.results[j]
                           q == out.results[ResultFor(okeys, keys[j])]
                       IN /\ q.title = r.title /\ q.id = r.id /\ q.url = r.url
                          /\ q.journal = r.journal /\ q.year = r.year
                          /\ q.authors = r.authors /\ q.doi = r.doi
                          /\ q.language = r.language
                          /\ Range(q.pubTypes) = Range(r.pubTypes)
                          /\ q.citations = r.citations
                          /\ q.evidenceLevel = r.evidenceLevel

\* C10 amended: reconciling any permutation of the input gives the same set
\* of dedup keys and, per key, the same evidenceLevel, citations, pubTypes
\* as a set and foundIn as a set.
C10_RankedFieldsCommute ==
    mpc = "done" =>
        LET keys == KeysOf(merged.results)
        IN \A f \in Permutations(1..Len(allResults)) :
              LET out == deduplicateAndMerge(Permute(allResults, f))
                  okeys == KeysOf(out.results)
              IN /\ Range(okeys) = Range(keys)
                 /\ Len(out.results) = Len(merged.results)
                 /\ \A j \in ResultIndexes :
                       LET r == merged.results[j]
                           q == out.results[ResultFor(okeys, keys[j])]
                       IN /\ q.evidenceLevel = r.evidenceLevel
                          /\ q.citations = r.citations
                          /\ Range(q.pubTypes) = Range(r.pubTypes)
                          /\ Range(q.foundIn) = Range(r.foundIn)

\* a merge of three records that differ in level, citations and pubTypes
C10_Witness ==
    /\ mpc = "done"
    /\ \E j \in ResultIndexes :
          LET from == Contributors(dedupKey(merged.results[j]))
          IN /\ Cardinality(from) = 3
             /\ Cardinality({allResults[i].evidenceLevel : i \in from}) = 3
             /\ Cardinality({OrZero(allResults[i].citations) : i \in from}) = 3

----------------------------------------------------------------------------
(* Properties of the rate limiter (SpecLimit).                             *)

\* C11: of the requests of one IP in one window, counted from the request
\* that opened it and leaving OPTIONS requests out, exactly the first
\* RATE_LIMIT are routed to a handler; every later one is answered with
\* status 429 and Retry-After: 60 and is not routed, whatever handlers of
\* earlier requests are still running.  The count kept in rateLimitMap is
\* the number of those requests.
C11_FirstSixtyAdmitted ==
    /\ lastFetch.method = "GET" =>
          /\ lastFetch.routed <=> lastFetch.ordinal <= RATE_LIMIT
          /\ ~lastFetch.routed =>
                (lastFetch.status = 429 /\ lastFetch.retryAfter = "60")
          /\ lastFetch.routed => lastFetch.status # 429
    /\ lastFetch.method = "OPTIONS" => (lastFetch.status = 200 /\ ~lastFetch.routed)
    /\ \A ip \in DOMAIN rateLimitMap :
          rateLimitMap[ip].start = opened[ip] => rateLimitMap[ip].count = seen[ip]

\* the request after the RATE_LIMIT-th of a window was refused while a
\* handler was running and the other IP had a window of its own
C11_Witness ==
    /\ lastFetch.method = "GET"
    /\ lastFetch.ordinal = RATE_LIMIT + 1
    /\ lastFetch.status = 429
    /\ inflight > 0
    /\ \E ip \in ClientIPs : ip # lastFetch.ip /\ seen[ip] > 0

\* C12 as stated: a request that arrives RATE_WINDOW ms or more after the
\* request that opened the window is admitted and opens a new window with
\* count 1.
C12_NewWindowAtSixty ==
    (lastFetch.method = "GET" /\ lastFetch.elapsed >= RATE_WINDOW) =>
        /\ lastFetch.routed
        /\ lastFetch.count = 1
        /\ lastFetch.start = lastFetch.at

\* C12 amended: a request that arrives more than RATE_WINDOW ms after the
\* request that opened the window is admitted and opens a new window with
\* count 1, however many requests the old window had; a request that
\* arrives at most RATE_WINDOW ms after it (exactly RATE_WINDOW included)
\* is counted in the old window and leaves the window start where it was,
\* whether it is admitted or refused.
C12_NewWindowAfterSixty ==
    lastFetch.method = "GET" =>
        /\ lastFetch.elapsed > RATE_WINDOW =>
              /\ lastFetch.routed
              /\ lastFetch.count = 1
              /\ lastFetch.start = lastFetch.at
        /\ (lastFetch.elapsed # NoWindow /\ lastFetch.elapsed <= RATE_WINDOW) =>
              /\ lastFetch.start = lastFetch.at - lastFetch.elapsed
              /\ lastFetch.count = lastFetch.before + 1
        /\ ~lastFetch.routed =>
              lastFetch.start = lastFetch.at - lastFetch.elapsed

\* a request opened a new window after a window in which requests had been
\* refused
C12_Witness ==
    /\ lastFetch.method = "GET"
    /\ lastFetch.elapsed > RATE_WINDOW
    /\ lastFetch.before > RATE_LIMIT
    /\ lastFetch.routed
    /\ lastFetch.count = 1

----------------------------------------------------------------------------
(* Properties of the adapters' failures (SpecFanout).                      *)

S2Tasks == CallsOf("s2")

\* the tasks other than the Semantic Scholar ones that met a 429
WithoutBusy == SelectSeq(searches, LAMBDA t : ~(t.label = "s2" /\ t.up = "busy"))

\* C13: a Semantic Scholar task whose upstream answers 429 fulfils with an
\* empty list: if no Semantic Scholar task met anything worse, the response
\* has no errors.s2 and its results are those of the same request without
\* that task; a Semantic Scholar task that met another failure rejects and
\* errors.s2 holds its message.
C13_S2BusyIsEmpty ==
    /\ \A i \in S2Tasks :
          /\ searches[i].up = "busy" =>
                (searches[i].state = "fulfilled" /\ ValueOf(searches[i]) = <<>>)
          /\ searches[i].up = "down" => searches[i].state = "rejected"
    /\ (pc = "done" /\ queryParts # <<>>) =>
          /\ (\A i \in S2Tasks : searches[i].up # "down")
                <=> "s2" \notin DOMAIN response.errors
          /\ \A i \in S2Tasks :
                (searches[i].up = "down" /\ \A k \in S2Tasks : k >= i)
                    => response.errors["s2"] = AdapterError("s2", searches[i].arg)
          /\ response.results =
                groupByEvidence(deduplicateAndMerge(CollectResults(WithoutBusy)).results)
          /\ response.totalCount = Len(ResponseRecords)

\* a response after Semantic Scholar answered 429 and other sources
\* returned records
C13_Witness ==
    /\ pc = "done"
    /\ \E i \in S2Tasks : searches[i].up = "busy"
    /\ "s2" \notin DOMAIN response.errors
    /\ response.totalCount > 0
    /\ \E l \in SourceLabels : l \in DOMAIN response.errors

\* the rejected tasks of a label
RejectedOf(label) == {i \in CallsOf(label) : searches[i].state = "rejected"}

\* C14: when tasks of one label reject, errors[label] is the message of the
\* first of them in dispatch order, which is the order in which the
\* settled outcomes are read, whatever later tasks of the label did; and
\* every record of a fulfilled task is in the results, with the source
\* among foundIn, even if another task of its label rejected.
C14_FirstFailureKept ==
    (pc = "done" /\ queryParts # <<>>) =>
        /\ \A l \in SourceLabels :
              RejectedOf(l) # {} =>
                  \E i \in RejectedOf(l) :
                      /\ \A k \in RejectedOf(l) : i <= k
                      /\ response.errors[l] = ReasonOf(searches[i])
        /\ \A i \in TaskIndexes :
              searches[i].state = "fulfilled" =>
                  \A r \in Range(ValueOf(searches[i])) :
                      \E j \in 1..Len(ResponseRecords) :
                          /\ dedupKey(ResponseRecords[j]) = dedupKey(r)
                          /\ Includes(ResponseRecords[j].foundIn, r.source)

\* both OpenAlex tasks rejected with different messages, and of the two
\* Europe PMC tasks the first rejected and the second returned a record
C14_Witness ==
    /\ pc = "done"
    /\ \E i, k \in RejectedOf("openalex") :
          /\ i < k
          /\ ReasonOf(searches[i]) # ReasonOf(searches[k])
          /\ response.errors["openalex"] = ReasonOf(searches[i])
    /\ \E i \in RejectedOf("epmc"), k \in CallsOf("epmc") :
          /\ i < k
          /\ searches[k].state = "fulfilled"
          /\ \E j \in 1..Len(ResponseRecords) :
                Includes(ResponseRecords[j].foundIn, "Europe PMC")

----------------------------------------------------------------------------
(* Properties of groupByEvidence (SpecGroup).                              *)

\* how often x occurs in a list
CountIn(list, x) == Cardinality({i \in 1..Len(list) : list[i] = x})

\* every record is in the bucket of its level, or in other when the level
\* is not one of the eight, and in no other bucket, as often as in the
\* input; the bucket sizes sum to the number of records; in every bucket
\* the years are non-increasing, a missing year counting as 0
PartitionedSorted ==
    /\ DOMAIN grouped = EvidenceLevels
    /\ \A r \in Range(merged.results) :
          \A level \in EvidenceLevels :
              CountIn(grouped[level], r) =
                  IF level = (IF r.evidenceLevel \in EvidenceLevels
                              THEN r.evidenceLevel ELSE "other")
                  THEN CountIn(merged.results, r) ELSE 0
    /\ SumOver([level \in EvidenceLevels |-> Len(grouped[level])], EvidenceLevels)
          = Len(merged.results)
    /\ \A level \in EvidenceLevels :
          \A i, k \in 1..Len(grouped[level]) :
              i < k => grouped[level][i].year >= grouped[level][k].year

----------------------------------------------------------------------------
(* Properties of the synonym expansion (SpecSyn).                          *)

\* the groups that list a term, in any letter case
ClassesOf(term) == {g \in 1..Len(SYNONYMS) : toLowerCase(term) \in LowerClasses[g]}

C17_NoCaseDuplicates ==
    pc = "expanded" =>
        \A i, k \in 1..Len(expandedParts) :
            toLowerCase(expandedParts[i]) = toLowerCase(expandedParts[k]) => i = k

----------------------------------------------------------------------------
(* Properties of the local searches.                                       *)

\* the score the given row gets for the terms of the call
RowScore(keywords, text) ==
    scoreOf(keywords, text, localTerms(expandedParts, translatedParts))

PositionsOfGuideline(i) ==
    {j \in 1..Len(response.nationalGuidelines) :
        response.nationalGuidelines[j].id = <<"gl-", GUIDELINES[i].id>>}

PositionsOfQuestion(i) ==
    {j \in 1..Len(response.clinicalQuestions) :
        response.clinicalQuestions[j].cq = CQ_DATA[i].cq}

\* C20: searchNationalGuidelines returns exactly the guidelines whose score
\* is greater than 0, each once and with its score, ordered by
\* non-increasing score and, among equal scores, by non-increasing year (a
\* missing year counts as 0); searchClinicalQuestions returns exactly the
\* clinical questions whose score is greater than 0, ordered by
\* non-increasing score.
C20_LocalHitsSorted ==
    pc = "scored" =>
        LET gls == response.nationalGuidelines
            cqs == response.clinicalQuestions
        IN /\ \A i \in 1..Len(GUIDELINES) :
                 LET sc == RowScore(GUIDELINES[i].diseases, GUIDELINES[i].title)
                 IN /\ Cardinality(PositionsOfGuideline(i)) = (IF sc > 0 THEN 1 ELSE 0)
                    /\ \A j \in PositionsOfGuideline(i) : gls[j].score = sc
           /\ \A j \in 1..Len(gls) : \E i \in 1..Len(GUIDELINES) : j \in PositionsOfGuideline(i)
           /\ \A j, k \in 1..Len(gls) :
                 j < k => /\ gls[j].score >= gls[k].score
                          /\ gls[j].score = gls[k].score => gls[j].year >= gls[k].year
           /\ \A i \in 1..Len(CQ_DATA) :
                 LET sc == RowScore(CQ_DATA[i].kw, CQ_DATA[i].q)
                 IN /\ Cardinality(PositionsOfQuestion(i)) = (IF sc > 0 THEN 1 ELSE 0)
                    /\ \A j \in PositionsOfQuestion(i) : cqs[j].score = sc
           /\ \A j \in 1..Len(cqs) : \E i \in 1..Len(CQ_DATA) : j \in PositionsOfQuestion(i)
           /\ \A j, k \in 1..Len(cqs) : j < k => cqs[j].score >= cqs[k].score

\* a call that leaves some guidelines out, returns two guidelines of equal
\* score in the order of their years against the order of the table, and
\* returns clinical questions in another order than the table's
C20_Witness ==
    /\ pc = "scored"
    /\ Len(response.nationalGuidelines) < Len(GUIDELINES)
    /\ \E j \in 1..(Len(response.nationalGuidelines) - 1) :
          LET a == response.nationalGuidelines[j]
              b == response.nationalGuidelines[j + 1]
          IN a.score = b.score /\ a.id = <<"gl-", "g4">> /\ b.id = <<"gl-", "g3">>
    /\ Len(response.clinicalQuestions) >= 2
    /\ Len(response.clinicalQuestions) < Len(CQ_DATA)
    /\ \E j \in 1..(Len(response.clinicalQuestions) - 1) :
          response.clinicalQuestions[j].cq = "CQ3"
          /\ response.clinicalQuestions[j + 1].cq = "CQ1"

----------------------------------------------------------------------------
(* Properties of what handleSearch hands to the sources.                   *)

\* the terms that only the synonym expansion has added
AddedTerms == Range(expandedParts) \ Range(queryParts)

\* the arguments built from the parts as asked or from their translations
IsOriginal(arg) ==
    IF arg.kind = "parts"
    THEN arg.v = queryParts \/ arg.v = translatedParts
    ELSE arg.v = Join(queryParts) \/ arg.v = Join(translatedParts)

CarriesTerm(arg, term) ==
    IF arg.kind = "parts" THEN term \in Range(arg.v) ELSE SeqIncludes(arg.v, term)

\* C18: every call of an external source adapter gets the query parts as
\* asked, their text, or their translations, and none of the terms that the
\* synonym expansion has added; the national guideline and clinical question
\* searches are the ones called with expandedParts.
C18_AdaptersGetOriginals ==
    /\ pc \in {"searching", "done"} =>
          \A i \in 1..Len(searches) :
              /\ IsOriginal(searches[i].arg)
              /\ \A t \in AddedTerms : ~CarriesTerm(searches[i].arg, t)
    /\ (pc = "done" /\ response.status = 200) =>
          /\ response.nationalGuidelines
                = searchNationalGuidelines(expandedParts, translatedParts)
          /\ response.clinicalQuestions
                = searchClinicalQuestions(expandedParts, translatedParts)

\* a finished search whose expansion added terms, with adapters called, and
\* whose guideline list holds a row that the parts as asked do not reach
C18_Witness ==
    /\ pc = "done"
    /\ response.status = 200
    /\ AddedTerms # {}
    /\ Len(searches) >= 6
    /\ response.nationalGuidelines # searchNationalGuidelines(queryParts, translatedParts)

----------------------------------------------------------------------------
(* Properties of the translated fields of the response.                    *)

SearchFields == {"disease", "treatment", "topic"}

\* the place of a field among the fields that are present
PlaceOf(f) ==
    Cardinality({g \in SearchFields : req[g] # <<>> /\
                    \/ g = "disease" /\ f \in {"treatment", "topic"}
                    \/ g = "treatment" /\ f = "topic"}) + 1

\* the values a field's translation may take: the settled translation of the
\* part that is the field's value, '' when it failed or the field is absent
ObtainedFor(f) ==
    IF req[f] = <<>> THEN {<<>>}
    ELSE IF req.q = <<>> THEN {SettledValues(translations)[PlaceOf(f)]}
    ELSE {<<>>} \cup {SettledValues(translations)[i] :
                         i \in {k \in 1..Len(queryParts) : queryParts[k] = req[f]}}

\* C19: with multilingual=true, translated.disease (treatment, topic) of the
\* response is the translation obtained for the value of the request's
\* disease (treatment, topic) parameter, or the empty string when the
\* parameter is absent or its translation failed, whatever the combination
\* of q, disease, treatment and topic.
C19_TranslatedFieldsOfRequest ==
    /\ (pc = "searching" /\ req.multilingual) =>
          \A f \in SearchFields : translatedFields[f] \in ObtainedFor(f)
    /\ (pc = "done" /\ response.status = 200 /\ req.multilingual) =>
          \A f \in SearchFields : response.translated[f] \in ObtainedFor(f)

----------------------------------------------------------------------------
(* Properties of classifyByTitle.                                          *)

MatchingTiers(ttl) == {i \in 1..Len(TitlePatterns) : tierMatches(i, ttl)}

\* the lowest-numbered test of the cascade with a match, 0 without any
LowestTier(ttl) ==
    LET tiers == MatchingTiers(ttl)
    IN IF tiers = {} THEN 0 ELSE CHOOSE i \in tiers : \A k \in tiers : i <= k

OutputOf(tier) == IF tier = 0 THEN "other" ELSE TitlePatterns[tier].out

\* the level is one of the eight, and that of the lowest matching test
TotalAndFirstMatch ==
    clsLevel # "none" =>
        /\ clsLevel \in EvidenceLevels
        /\ clsLevel = OutputOf(LowestTier(clsTitle))

\* a piece matching test k was added to a title classified by a later test
AddedEarlierMatch ==
    /\ clsLevel # "none"
    /\ added # NoAdded
    /\ LET k == LowestTier(added.piece)
       IN k > 0 /\ LowestTier(added.title) > k

\* C21 as stated: classifyByTitle returns one of the eight evidence levels
\* for every title, the empty or missing one included; the level is the
\* output of the lowest-numbered test of the cascade that has a match in the
\* title; and adding a match of test k to a title classified by a later
\* test j makes the level the output of test k.
C21_AddedMatchWins ==
    /\ TotalAndFirstMatch
    /\ AddedEarlierMatch => clsLevel = OutputOf(LowestTier(added.piece))

\* C21 amended: classifyByTitle returns one of the eight evidence levels for
\* every title; the level is the output of the lowest-numbered test that has
\* a match in the title; and after adding a match of test k to a title
\* classified by a later test, if test k still matches the new title, the
\* level is the output of test k or of an earlier test whose pattern
\* neither the old title nor the added piece matched by itself.
C21_FirstMatchWins ==
    /\ TotalAndFirstMatch
    /\ (AddedEarlierMatch /\ tierMatches(LowestTier(added.piece), clsTitle)) =>
          LET k == LowestTier(added.piece)
              new == LowestTier(clsTitle)
          IN /\ new > 0
             /\ new <= k
             /\ clsLevel = OutputOf(new)
             /\ new < k => /\ ~tierMatches(new, added.title)
                           /\ ~tierMatches(new, added.piece)

\* a title classified by a late test to which a match of an earlier test
\* was added, and whose level moved to that of the earlier test
C21_Witness ==
    /\ AddedEarlierMatch
    /\ clsLevel = OutputOf(LowestTier(added.piece))
    /\ clsLevel # added.level
    /\ added.level # "other"

----------------------------------------------------------------------------
(* Properties of the reconciler on records with one DOI.                   *)

\* the three records with DOI 10.1/abc, from PubMed, Europe PMC and OpenAlex
ThreeSourcesReconciled ==
    /\ mpc = "done"
    /\ allResults = <<DoiPubMed, DoiEPMC, DoiOpenAlex>>

\* one record found in the three sources in the order seen, counted for
\* PubMed alone
OneRecordOfPubMed ==
    /\ Len(merged.results) = 1
    /\ merged.results[1].foundIn = <<"PubMed", "Europe PMC", "OpenAlex">>
    /\ merged.sourceCounts["pubmed"] = 1
    /\ merged.sourceCounts["epmc"] = 0
    /\ merged.sourceCounts["openalex"] = 0

\* C22 as stated: reconciling three records with the DOI 10.1/abc from
\* PubMed, Europe PMC and OpenAlex, in that order, with the levels rct,
\* review and sr_ma yields one record of level rct, found in the three
\* sources in first-seen order, with sourceCounts.pubmed = 1 and epmc =
\* openalex = 0.
C22_OneDoiKeepsRct ==
    ThreeSourcesReconciled =>
        OneRecordOfPubMed /\ merged.results[1].evidenceLevel = "rct"

\* C22 amended: the same three records yield one record of level sr_ma, the
\* best rank of the three, found in the three sources in first-seen order,
\* with sourceCounts.pubmed = 1 and epmc = openalex = 0.
C22_OneDoiKeepsBestRank ==
    ThreeSourcesReconciled =>
        OneRecordOfPubMed /\ merged.results[1].evidenceLevel = "sr_ma"

\* the three records have been reconciled into one
C22_Witness ==
    /\ ThreeSourcesReconciled
    /\ Len(merged.results) = 1
    /\ merged.results[1].id = "pm-4"

----------------------------------------------------------------------------
(* Properties of searchPatientVoice.                                       *)

VoiceLabels == [i \in 1..Len(searches) |-> searches[i].label]

\* at most VoiceCap records, each tagged, in a response of status 200
VoiceTaggedAndCapped ==
    pc = "voiceDone" =>
        /\ response.status = 200
        /\ Len(response.patientVoice) <= VoiceCap
        /\ \A i \in 1..Len(response.patientVoice) :
              response.patientVoice[i].isPatientVoice = TRUE

----------------------------------------------------------------------------
(* Properties of corsHeaders.                                              *)

OnAllowList == \E i \in 1..Len(ALLOWED_ORIGINS) : origin = ALLOWED_ORIGINS[i]

\* C24: Access-Control-Allow-Origin echoes the Origin of the request only
\* when the Origin is one of the three of the allow-list (or is the null
\* origin); an Origin that is not on the list, one that merely begins with a
\* listed origin included, is not echoed: the header is the first origin of
\* the list.
C24_EchoOnlyListed ==
    allowOrigin # <<>> =>
        /\ allowOrigin = origin => (OnAllowList \/ origin = <<"null">>)
        /\ (~OnAllowList /\ origin # <<"null">>) => allowOrigin = ALLOWED_ORIGINS[1]

----------------------------------------------------------------------------
(* Properties of the scores of the local searches.                         *)

\* the terms of the call, lowercased: expanded parts, then translated parts
CallTerms ==
    [i \in 1..(Len(expandedParts) + Len(translatedParts)) |->
        toLowerCase((expandedParts \o translatedParts)[i])]

LowerSet(keywords) == {toLowerCase(keywords[i]) : i \in 1..Len(keywords)}

\* the places of the term list whose term is one of the keywords
ExactAt(keywords) == {i \in 1..Len(CallTerms) : CallTerms[i] \in LowerSet(keywords)}

\* the places whose term contains a keyword or is contained in one
PartialAt(keywords) ==
    {i \in 1..Len(CallTerms) :
        \E k \in LowerSet(keywords) :
            SeqIncludes(k, CallTerms[i]) \/ SeqIncludes(CallTerms[i], k)}

\* the places whose term is contained in the text
InTextAt(text) == {i \in 1..Len(CallTerms) : SeqIncludes(toLowerCase(text), CallTerms[i])}

AwardedScore(keywords, text) ==
    10 * Cardinality(ExactAt(keywords))
    + 5 * Cardinality(PartialAt(keywords) \ ExactAt(keywords))
    + 3 * Cardinality(InTextAt(text))

GuidelineOf(id) == CHOOSE g \in Range(GUIDELINES) : <<"gl-", g.id>> = id

QuestionOf(cq) == CHOOSE c \in Range(CQ_DATA) : c.cq = cq

\* C25: the score of a guideline (of a clinical question) is the sum over
\* the places of the lowercased term list, expanded parts then translated
\* parts, a repeated term counted at each place, of 10 if the term is one of
\* the disease terms (keywords), else 5 if it contains one or is contained
\* in one, plus 3 if the title (question) contains the term: a term adds at
\* most 13, and never both 10 and 5.
C25_ScoreIsSumOfAwards ==
    pc = "scored" =>
        /\ \A j \in 1..Len(response.nationalGuidelines) :
              LET row == response.nationalGuidelines[j]
                  g == GuidelineOf(row.id)
              IN /\ row.score = AwardedScore(g.diseases, g.title)
                 /\ row.score <= 13 * Len(CallTerms)
        /\ \A j \in 1..Len(response.clinicalQuestions) :
              LET row == response.clinicalQuestions[j]
                  c == QuestionOf(row.cq)
              IN /\ row.score = AwardedScore(c.kw, c.q)
                 /\ row.score <= 13 * Len(CallTerms)

\* a call with the same term at two places, and a guideline that gets 13
\* for it at each place
C25_Witness ==
    /\ pc = "scored"
    /\ Len(CallTerms) = 2
    /\ CallTerms[1] = CallTerms[2]
    /\ \E j \in 1..Len(response.nationalGuidelines) :
          response.nationalGuidelines[j].score = 26
    /\ \E j \in 1..Len(response.nationalGuidelines) :
          response.nationalGuidelines[j].score = 16

----------------------------------------------------------------------------
(* Properties of the order in which the searches settle.                   *)

\* allResults as the loop of lines 533-543 builds it from the outcomes of
\* the tasks, taken in the order of dispatch
DispatchOrderResults ==
    Flatten([i \in 1..Len(searches) |->
                IF searches[i].state = "fulfilled" THEN ValueOf(searches[i]) ELSE <<>>])

\* per label, the message of the first rejected task in the order of dispatch
DispatchOrderErrors ==
    LET failed(l) == {i \in 1..Len(searches) :
                         searches[i].label = l /\ searches[i].state = "rejected"}
        labels == {searches[i].label : i \in 1..Len(searches)}
    IN [l \in {k \in labels : failed(k) # {}} |->
           ReasonOf(searches[CHOOSE i \in failed(l) : \A j \in failed(l) : i <= j])]

\* C26: the response of /api/search is fixed by the outcome of each task,
\* whatever the order in which the tasks settled: results (with every
\* record's foundIn), sourceCounts and sources.errors are those of the
\* outcomes taken in the order of dispatch.
C26_SettlingOrderUnseen ==
    (pc = "done" /\ response.status = 200) =>
        LET out == deduplicateAndMerge(DispatchOrderResults)
        IN /\ response.results = groupByEvidence(out.results)
           /\ response.totalCount = Len(out.results)
           /\ \A l \in SourceLabels : response.sourceCounts[l] = out.sourceCounts[l]
           /\ response.errors = DispatchOrderErrors

\* a response after PubMed settled last and Europe PMC first, both with
\* records of one article, and after a source failed
C26_Witness ==
    /\ pc = "done"
    /\ response.status = 200
    /\ Len(settledOrder) = 6
    /\ searches[settledOrder[6]].label = "pubmed"
    /\ searches[settledOrder[1]].label = "epmc"
    /\ searches[settledOrder[6]].state = "fulfilled"
    /\ searches[settledOrder[1]].state = "fulfilled"
    /\ \E i \in 1..Len(searches) : searches[i].state = "rejected"
    /\ \E i \in 1..Len(ResponseRecords) :
          /\ Len(ResponseRecords[i].foundIn) >= 2
          /\ ResponseRecords[i].foundIn[1] = "PubMed"

----------------------------------------------------------------------------
(* Properties of the reconciler: records with and without a DOI.           *)

\* the title and year parts of the key of a record without DOI
TitleAndYear(r) == <<normalizeTitle(r.title), r.year>>

\* the input records folded into result j: the record stored under the key
\* and those merged into it, which each add their source to foundIn
FoldedInto(j) ==
    {i \in 1..Len(allResults) :
        /\ dedupKey(allResults[i]) = dedupKey(merged.results[j])
        /\ Includes(merged.results[j].foundIn, allResults[i].source)}

\* C27: deduplicateAndMerge never merges a record with a DOI and a record
\* without one: the records folded into a result all have a DOI or all have
\* none, the doi of a result is the doi of the first record stored under
\* its key, and no result has a doi other than the one its own record had
\* in the input (the DOI fill-in of mergeInto changes nothing).
C27_DoiAndNoDoiApart ==
    (mpc = "done") =>
        \A j \in ResultIndexes :
            LET r == merged.results[j]
                first == allResults[FirstContributor(dedupKey(r))]
            IN /\ \A i \in FoldedInto(j) : (allResults[i].doi = <<>>) <=> (first.doi = <<>>)
               /\ r.doi = first.doi
               /\ \A i \in 1..Len(allResults) : allResults[i].id = r.id => allResults[i].doi = r.doi

\* an input with a record that has a DOI and one that has none, of equal
\* normalized title and year, the one without DOI first: two results
C27_Witness ==
    /\ mpc = "done"
    /\ \E i, k \in 1..Len(allResults) :
          /\ i < k
          /\ allResults[i].doi = <<>>
          /\ allResults[k].doi # <<>>
          /\ TitleAndYear(allResults[i]) = TitleAndYear(allResults[k])
          /\ Len(normalizeTitle(allResults[i].title)) > TitleKeyMin
          /\ \E j, l \in ResultIndexes :
                /\ j # l
                /\ merged.results[j].id = allResults[i].id
                /\ merged.results[j].doi = <<>>
                /\ merged.results[l].id = allResults[k].id
                /\ merged.results[l].doi = allResults[k].doi

----------------------------------------------------------------------------
(* Properties of the periodic removal of stale entries.                    *)

\* checkRateLimit without lines 41-46: the table is never swept
checkNeverSwept(map, ip, t) ==
    IF ip \notin DOMAIN map \/ windowExpired(map[ip].start, t)
    THEN [map |-> (ip :> [start |-> t, count |-> 1]) @@ map, allowed |-> TRUE]
    ELSE [map |-> [map EXCEPT ![ip].count = @ + 1],
          allowed |-> ~overLimit(map[ip].count + 1)]

\* the table of the limiter that never sweeps, as the history of each IP
\* gives it: the window its requests opened last and their number since
NeverSweptMap ==
    [ip \in {k \in ClientIPs : opened[k] # NoWindow} |->
        [start |-> opened[ip], count |-> seen[ip]]]

\* C28: the lazy sweep is unobservable.  At every call of checkRateLimit
\* the decision is the one a limiter that never sweeps takes on the same
\* calls, the entries that leave the table are entries whose window has
\* expired, and every entry left in the table is the entry of the limiter
\* that never sweeps.
C28_SweepUnobservable ==
    [][rateLimitMap' # rateLimitMap =>
          LET ip == lastFetch'.ip
              plain == checkNeverSwept(NeverSweptMap, ip, now)
          IN /\ lastFetch'.routed = plain.allowed
             /\ NeverSweptMap' = plain.map
             /\ \A k \in DOMAIN rateLimitMap \ DOMAIN rateLimitMap' :
                   windowExpired(rateLimitMap[k].start, now)
             /\ \A k \in DOMAIN rateLimitMap' : rateLimitMap'[k] = NeverSweptMap'[k]]_vars

\* a call has just swept the table: the entry of the other IP, whose window
\* had expired, is gone, while the limiter that never sweeps still has it
C28_Witness ==
    /\ lastFetch.method = "GET"
    /\ lastFetch.at = now
    /\ lastCleanup = now
    /\ now > StartTime
    /\ \E k \in ClientIPs :
          /\ k # lastFetch.ip
          /\ k \in DOMAIN NeverSweptMap
          /\ k \notin DOMAIN rateLimitMap
          /\ windowExpired(NeverSweptMap[k].start, now)

\* a call has swept the table and left the entry of the other IP, whose
\* window had not expired, in it
C28_WitnessKept ==
    /\ lastFetch.method = "GET"
    /\ lastFetch.at = now
    /\ lastCleanup = now
    /\ now > StartTime
    /\ \E k \in DOMAIN rateLimitMap :
          /\ k # lastFetch.ip
          /\ ~windowExpired(rateLimitMap[k].start, now)

----------------------------------------------------------------------------
(* Properties of the limiter across clients.                               *)

\* C29: rate limiting is isolated per client IP.  Every request of an IP
\* gets the decision it gets from a worker that received the same timed
\* requests of this IP and none of any other IP, so two histories that
\* differ only in the requests of other IPs decide alike; the entry the
\* request leaves for the IP is the same too.
C29_DecisionOfOwnHistory ==
    lastFetch.method = "GET" =>
        /\ lastFetch.ip \in DOMAIN alone
        /\ lastFetch.routed = alone[lastFetch.ip].allowed
        /\ rateLimitMap[lastFetch.ip] = alone[lastFetch.ip].map[lastFetch.ip]

\* a request of one IP is refused while the other IP has a live window of
\* its own in the table, and the worker that serves the IP alone swept at
\* another time than the shared one
C29_Witness ==
    /\ lastFetch.method = "GET"
    /\ lastFetch.status = 429
    /\ alone[lastFetch.ip].allowed = FALSE
    /\ alone[lastFetch.ip].lastCleanup # lastCleanup
    /\ \E k \in DOMAIN rateLimitMap :
          /\ k # lastFetch.ip
          /\ ~windowExpired(rateLimitMap[k].start, now)
          /\ rateLimitMap[k].count >= 2

----------------------------------------------------------------------------
(* Properties of the local searches across spellings of the query.         *)

LoweredParts == [i \in 1..Len(queryParts) |-> toLowerCase(queryParts[i])]

\* C30: the local lists do not depend on the letter case of the query
\* parts: the nationalGuidelines and clinicalQuestions of a query, scores
\* included, are those of the query with its parts in lower case.
C30_CaseOfPartsUnseen ==
    (pc = "scored") =>
        /\ response.nationalGuidelines =
              searchNationalGuidelines(expandSynonyms(LoweredParts), translatedParts)
        /\ response.clinicalQuestions =
              searchClinicalQuestions(expandSynonyms(LoweredParts), translatedParts)

\* what does hold: the same entries are listed for both spellings, and a
\* single part that is in no synonym class scores the same in both
C30_SameEntriesListed ==
    (pc = "scored") =>
        LET lower == searchNationalGuidelines(expandSynonyms(LoweredParts), translatedParts)
            lowerQ == searchClinicalQuestions(expandSynonyms(LoweredParts), translatedParts)
        IN /\ {e.id : e \in Range(response.nationalGuidelines)} = {e.id : e \in Range(lower)}
           /\ {e.cq : e \in Range(response.clinicalQuestions)} = {e.cq : e \in Range(lowerQ)}
           /\ (Len(queryParts) = 1 /\ SYN_MAP(lookupKey(queryParts[1])) = <<>>)
                 => (response.nationalGuidelines = lower /\ response.clinicalQuestions = lowerQ)

====
